---- MODULE Spec2Model ----
(***************************************************************************)
(* ZATCA e-invoicing core: TLV codec (utils/tlv.py), VAT-number rule and   *)
(* compliance validator (utils/validation.py), UBL invoice builder         *)
(* (utils/xml_builder.py) and the generate_invoice tool (server.py).       *)
(*                                                                         *)
(* Text is a sequence of Unicode code points, bytes are naturals 0..255.   *)
(* Python's None is the one-element sequence <<-1>>, which is no text.     *)
(***************************************************************************)
EXTENDS Integers, Sequences, FiniteSets, TLC

VARIABLES
    fields,      \* keyword arguments of the last encode_tlv call
    qr,          \* base64 QR payload: result of encode_tlv, or text received from outside
    decoded,     \* result of decode_tlv on qr
    vat,         \* argument of the last validate_vat_number call
    vat_errors,  \* its result
    request,     \* arguments of the last build_invoice_xml / generate_invoice call
    xml,         \* the invoice document produced by the builder
    response,    \* what generate_invoice returned
    validation,  \* result of validate_invoice_xml on xml
    edits,       \* number of changes made to xml outside the builder
    signing,     \* what the last sign_invoice call was given and returned
    tables,      \* the module-level tables: TAG_NAMES, the type-code maps, the namespaces
    calls,       \* per thread, the invocation of a core operation it is running
    http         \* the last submit_invoice / check_compliance call: request posted, answer

vars == <<fields, qr, decoded, vat, vat_errors, request, xml, response, validation, edits,
          signing, tables, calls, http>>

None == <<-1>>

\* The value of a variable whose operation has not run.
NotRun == [run |-> FALSE]

----------------------------------------------------------------------------
(* Sequence helpers                                                        *)

\* Concatenation of ss[lo..hi], halving the range (texts reach 256 elements).
RECURSIVE FlattenRange(_, _, _)
FlattenRange(ss, lo, hi) ==
    IF lo > hi THEN <<>>
    ELSE IF lo = hi THEN ss[lo]
    ELSE LET mid == (lo + hi) \div 2
         IN  FlattenRange(ss, lo, mid) \o FlattenRange(ss, mid + 1, hi)

Flatten(ss) == FlattenRange(ss, 1, Len(ss))

RECURSIVE SumSeq(_)
SumSeq(ns) == IF ns = <<>> THEN 0 ELSE Head(ns) + SumSeq(Tail(ns))

Repeat(c, n) == [i \in 1..n |-> c]

RECURSIVE Pow10(_)
Pow10(n) == IF n = 0 THEN 1 ELSE 10 * Pow10(n - 1)

Abs(n) == IF n < 0 THEN -n ELSE n

----------------------------------------------------------------------------
(* str.encode("utf-8") and bytes.decode("utf-8")                           *)

Utf8Char(c) ==
    IF c < 128 THEN <<c>>
    ELSE IF c < 2048 THEN <<192 + (c \div 64), 128 + (c % 64)>>
    ELSE IF c < 65536 THEN
        <<224 + (c \div 4096), 128 + ((c \div 64) % 64), 128 + (c % 64)>>
    ELSE <<240 + (c \div 262144), 128 + ((c \div 4096) % 64),
           128 + ((c \div 64) % 64), 128 + (c % 64)>>

Utf8Encode(s) == Flatten([i \in 1..Len(s) |-> Utf8Char(s[i])])

IsCont(b) == b >= 128 /\ b < 192

\* Length of the well-formed UTF-8 sequence starting at bs[i], 0 if ill-formed
\* (strict decoder: no overlong forms, no surrogates, nothing above U+10FFFF).
Utf8SeqLen(bs, i) ==
    LET b == bs[i]
        n == Len(bs)
    IN  IF b < 128 THEN 1
        ELSE IF b >= 194 /\ b < 224 THEN
            IF i + 1 <= n /\ IsCont(bs[i + 1]) THEN 2 ELSE 0
        ELSE IF b >= 224 /\ b < 240 THEN
            IF /\ i + 2 <= n /\ IsCont(bs[i + 1]) /\ IsCont(bs[i + 2])
               /\ (b = 224 => bs[i + 1] >= 160)
               /\ (b = 237 => bs[i + 1] < 160)
            THEN 3 ELSE 0
        ELSE IF b >= 240 /\ b < 245 THEN
            IF /\ i + 3 <= n
               /\ IsCont(bs[i + 1]) /\ IsCont(bs[i + 2]) /\ IsCont(bs[i + 3])
               /\ (b = 240 => bs[i + 1] >= 144)
               /\ (b = 244 => bs[i + 1] < 144)
            THEN 4 ELSE 0
        ELSE 0

Utf8CodePoint(bs, i, k) ==
    IF k = 1 THEN bs[i]
    ELSE IF k = 2 THEN (bs[i] - 192) * 64 + (bs[i + 1] - 128)
    ELSE IF k = 3 THEN
        (bs[i] - 224) * 4096 + (bs[i + 1] - 128) * 64 + (bs[i + 2] - 128)
    ELSE (bs[i] - 240) * 262144 + (bs[i + 1] - 128) * 4096
         + (bs[i + 2] - 128) * 64 + (bs[i + 3] - 128)

\* bytes.decode("utf-8"), strict; None on UnicodeDecodeError.  A character
\* starts at every byte that is not a continuation byte, so the text is
\* well-formed iff each start opens a well-formed sequence that ends right
\* before the next start.
Utf8Decode(bs) ==
    LET n      == Len(bs)
        starts == SelectSeq([i \in 1..n |-> i], LAMBDA i : ~IsCont(bs[i]))
        m      == Len(starts)
        next(j) == IF j < m THEN starts[j + 1] ELSE n + 1
        wellFormed ==
            /\ (n > 0 => m > 0 /\ starts[1] = 1)
            /\ \A j \in 1..m :
                   LET k == Utf8SeqLen(bs, starts[j])
                   IN  k > 0 /\ starts[j] + k = next(j)
    IN  IF ~wellFormed THEN None
        ELSE [j \in 1..m |-> Utf8CodePoint(bs, starts[j], next(j) - starts[j])]

----------------------------------------------------------------------------
(* base64.b64encode / base64.b64decode, standard alphabet                  *)

B64Char(v) ==
    IF v < 26 THEN 65 + v
    ELSE IF v < 52 THEN 97 + (v - 26)
    ELSE IF v < 62 THEN 48 + (v - 52)
    ELSE IF v = 62 THEN 43 ELSE 47

B64Pad == <<61>>

B64Group(bs, g) ==
    LET n  == Len(bs)
        i  == 3 * (g - 1) + 1
        b1 == bs[i]
        b2 == IF i + 1 <= n THEN bs[i + 1] ELSE 0
        b3 == IF i + 2 <= n THEN bs[i + 2] ELSE 0
    IN  <<B64Char(b1 \div 4), B64Char((b1 % 4) * 16 + (b2 \div 16))>>
        \o (IF i + 1 <= n THEN <<B64Char((b2 % 16) * 4 + (b3 \div 64))>> ELSE B64Pad)
        \o (IF i + 2 <= n THEN <<B64Char(b3 % 64)>> ELSE B64Pad)

b64encode(bs) == Flatten([g \in 1..((Len(bs) + 2) \div 3) |-> B64Group(bs, g)])

B64Val(c) ==
    IF c >= 65 /\ c <= 90 THEN c - 65
    ELSE IF c >= 97 /\ c <= 122 THEN c - 97 + 26
    ELSE IF c >= 48 /\ c <= 57 THEN c - 48 + 52
    ELSE IF c = 43 THEN 62
    ELSE IF c = 47 THEN 63
    ELSE -1

B64Quad(cs, g) ==
    LET i  == 4 * (g - 1) + 1
        v1 == B64Val(cs[i])
        v2 == B64Val(cs[i + 1])
        v3 == B64Val(cs[i + 2])
        v4 == B64Val(cs[i + 3])
    IN  <<v1 * 4 + (v2 \div 16)>>
        \o (IF cs[i + 2] = 61 THEN <<>>
            ELSE <<(v2 % 16) * 16 + (v3 \div 4)>>
                 \o (IF cs[i + 3] = 61 THEN <<>> ELSE <<(v3 % 4) * 64 + v4>>))

\* Non-alphabet characters are discarded (validate=False); a remainder that is
\* not a whole number of padded quads is binascii.Error, modelled as None.
b64decode(s) ==
    LET cs == SelectSeq(s, LAMBDA c : B64Val(c) >= 0 \/ c = 61)
        n  == Len(cs)
        padOk == \A i \in 1..n :
                    cs[i] = 61 => /\ i >= n - 1
                                  /\ i % 4 \in {0, 3}
                                  /\ (i % 4 = 3 => cs[n] = 61 /\ i = n - 1)
    IN  IF n % 4 # 0 \/ ~padOk THEN None
        ELSE Flatten([g \in 1..(n \div 4) |-> B64Quad(cs, g)])

----------------------------------------------------------------------------
(* utils/tlv.py                                                            *)

MaxValueLen == 255
MinTag == 1
MaxTag == 9

TAG_NAMES ==
    [t \in MinTag..MaxTag |->
        CASE t = 1 -> "seller_name"
          [] t = 2 -> "vat_number"
          [] t = 3 -> "timestamp"
          [] t = 4 -> "total_amount"
          [] t = 5 -> "vat_amount"
          [] t = 6 -> "invoice_hash"
          [] t = 7 -> "ecdsa_signature"
          [] t = 8 -> "ecdsa_public_key"
          [] t = 9 -> "ecdsa_stamp"]

\* TLVTag.encode with the length taken from the text, not from its bytes.
TLVTag_encode_CharLen(tag, value) ==
    LET value_bytes == Utf8Encode(value)
    IN  IF Len(value) > MaxValueLen THEN [ok |-> FALSE, error |-> "too long"]
        ELSE IF tag < MinTag \/ tag > MaxTag THEN [ok |-> FALSE, error |-> "invalid tag"]
        ELSE [ok |-> TRUE, bytes |-> <<tag, Len(value)>> \o value_bytes]

\* TLVTag.encode rejecting a value of MaxValueLen bytes already.
TLVTag_encode_Strict(tag, value) ==
    LET value_bytes == Utf8Encode(value)
    IN  IF Len(value_bytes) >= MaxValueLen THEN [ok |-> FALSE, error |-> "too long"]
        ELSE IF tag < MinTag \/ tag > MaxTag THEN [ok |-> FALSE, error |-> "invalid tag"]
        ELSE [ok |-> TRUE, bytes |-> <<tag, Len(value_bytes)>> \o value_bytes]

\* TLVTag.encode: [ok, bytes]; ok = FALSE is the raised ValueError.
TLVTag_encode(tag, value) ==
    LET value_bytes == Utf8Encode(value)
    IN  IF Len(value_bytes) > MaxValueLen THEN [ok |-> FALSE, error |-> "too long"]
        ELSE IF tag < MinTag \/ tag > MaxTag THEN [ok |-> FALSE, error |-> "invalid tag"]
        ELSE [ok |-> TRUE, bytes |-> <<tag, Len(value_bytes)>> \o value_bytes]

\* The list `tags` built with truthiness tests: an empty Phase-2 value is dropped.
TlvTags_Truthy(f) ==
    <<  <<1, f.seller_name>>, <<2, f.vat_number>>, <<3, f.timestamp>>,
        <<4, f.total_amount>>, <<5, f.vat_amount>> >>
    \o (IF f.invoice_hash \notin {None, <<>>} THEN << <<6, f.invoice_hash>> >> ELSE <<>>)
    \o (IF f.ecdsa_signature \notin {None, <<>>} THEN << <<7, f.ecdsa_signature>> >> ELSE <<>>)
    \o (IF f.ecdsa_public_key \notin {None, <<>>} THEN << <<8, f.ecdsa_public_key>> >> ELSE <<>>)

\* The list `tags` of encode_tlv: the five mandatory segments, then each
\* Phase-2 segment whose argument is not None.
TlvTags(f) ==
    <<  <<1, f.seller_name>>, <<2, f.vat_number>>, <<3, f.timestamp>>,
        <<4, f.total_amount>>, <<5, f.vat_amount>> >>
    \o (IF f.invoice_hash # None THEN << <<6, f.invoice_hash>> >> ELSE <<>>)
    \o (IF f.ecdsa_signature # None THEN << <<7, f.ecdsa_signature>> >> ELSE <<>>)
    \o (IF f.ecdsa_public_key # None THEN << <<8, f.ecdsa_public_key>> >> ELSE <<>>)

\* encode_tlv: [ok, value]; the first segment that raises aborts the call.
encode_tlv(f) ==
    LET tags == TlvTags(f)
        segs == [i \in 1..Len(tags) |-> TLVTag_encode(tags[i][1], tags[i][2])]
    IN  IF \E i \in 1..Len(segs) : ~segs[i].ok
        THEN [ok |-> FALSE, error |-> "ValueError", value |-> None]
        ELSE [ok |-> TRUE, error |-> "",
              value |-> b64encode(Flatten([i \in 1..Len(segs) |-> segs[i].bytes]))]

\* The while loop with the length test off by one (>= for >).
RECURSIVE DecodeLoop_LenGe(_, _, _)
DecodeLoop_LenGe(data, i, result) ==
    IF ~(i < Len(data)) THEN [ok |-> TRUE, error |-> "", result |-> result]
    ELSE IF i + 1 >= Len(data) THEN [ok |-> FALSE, error |-> "Truncated"]
    ELSE LET tag    == data[i + 1]
             length == data[i + 2]
         IN  IF i + 2 + length >= Len(data)
             THEN [ok |-> FALSE, error |-> "claims length"]
             ELSE LET value == Utf8Decode(SubSeq(data, i + 3, i + 2 + length))
                  IN  IF value = None
                      THEN [ok |-> FALSE, error |-> "UnicodeDecodeError"]
                      ELSE DecodeLoop_LenGe(data, i + 2 + length,
                               [t \in DOMAIN result \cup {tag} |->
                                   IF t = tag THEN value ELSE result[t]])

\* The while loop of decode_tlv from offset i (0-based) with mapping `result`.
RECURSIVE DecodeLoop(_, _, _)
DecodeLoop(data, i, result) ==
    IF ~(i < Len(data)) THEN [ok |-> TRUE, error |-> "", result |-> result]
    ELSE IF i + 1 >= Len(data) THEN [ok |-> FALSE, error |-> "Truncated"]
    ELSE LET tag    == data[i + 1]
             length == data[i + 2]
         IN  IF i + 2 + length > Len(data)
             THEN [ok |-> FALSE, error |-> "claims length"]
             ELSE LET value == Utf8Decode(SubSeq(data, i + 3, i + 2 + length))
                  IN  IF value = None
                      THEN [ok |-> FALSE, error |-> "UnicodeDecodeError"]
                      ELSE DecodeLoop(data, i + 2 + length,
                               [t \in DOMAIN result \cup {tag} |->
                                   IF t = tag THEN value ELSE result[t]])

decode_tlv(base64_string) ==
    LET data == b64decode(base64_string)
    IN  IF data = None THEN [ok |-> FALSE, error |-> "binascii.Error"]
        ELSE DecodeLoop(data, 0, <<>>)

----------------------------------------------------------------------------
(* utils/validation.py: validate_vat_number                                *)

VatLen == 15

\* Characters for which str.isdigit() is true, as far as the inputs go: ASCII
\* digits, superscript digits, Arabic-Indic and extended Arabic-Indic digits.
IsDigitChar(c) ==
    \/ c >= 48 /\ c <= 57
    \/ c \in {178, 179, 185}
    \/ c >= 1632 /\ c <= 1641
    \/ c >= 1776 /\ c <= 1785

\* str.isdigit(): non-empty and every character a digit.
isdigit(s) == Len(s) > 0 /\ \A i \in 1..Len(s) : IsDigitChar(s[i])

IfErr(cond, msg) == IF cond THEN <<msg>> ELSE <<>>

\* The list of violation messages; the length message is kept without the
\* ", got <n>" tail.
validate_vat_number(v) ==
    IF v = None \/ v = <<>> THEN <<"VAT number is required">>
    ELSE IfErr(Len(v) # VatLen, "VAT number must be 15 digits")
         \o IfErr(~isdigit(v), "VAT number must contain only digits")
         \o IfErr(v[1] # 51, "VAT number must start with 3")
         \o IfErr(v[Len(v)] # 51, "VAT number must end with 3")

----------------------------------------------------------------------------
(* decimal.Decimal: a value is [ok, m, e] = m * 10^-e, e >= 0; ok = FALSE  *)
(* is decimal.InvalidOperation raised by the constructor.                  *)

Dec(m, e) == [ok |-> TRUE, m |-> m, e |-> e]
DecInvalid == [ok |-> FALSE, m |-> 0, e |-> 0]

IsAsciiDigit(c) == c >= 48 /\ c <= 57

RECURSIVE DigitsValue(_)
DigitsValue(ds) ==
    IF ds = <<>> THEN 0
    ELSE 10 * DigitsValue(SubSeq(ds, 1, Len(ds) - 1)) + (ds[Len(ds)] - 48)

\* Decimal(text) for plain notation: optional sign, digits with at most one
\* point and at least one digit.  Any other text is InvalidOperation here.
DecParse(text) ==
    IF text = None \/ text = <<>> THEN DecInvalid
    ELSE LET signed == text[1] \in {43, 45}
             body   == IF signed THEN Tail(text) ELSE text
             points == {i \in 1..Len(body) : body[i] = 46}
             digits == SelectSeq(body, IsAsciiDigit)
         IN  IF \/ Cardinality(points) > 1
                \/ digits = <<>>
                \/ Len(digits) + Cardinality(points) # Len(body)
             THEN DecInvalid
             ELSE LET p == IF points = {} THEN Len(body) ELSE CHOOSE i \in points : TRUE
                      v == DigitsValue(digits)
                  IN  Dec(IF text[1] = 45 THEN -v ELSE v, Len(body) - p)

RECURSIVE NatDigits(_)
NatDigits(n) == IF n < 10 THEN <<48 + n>> ELSE Append(NatDigits(n \div 10), 48 + (n % 10))

\* str(Decimal) in plain notation (exponent <= 0 and adjusted exponent >= -6,
\* which every value met here satisfies).
DecStr(d) ==
    LET ds     == NatDigits(Abs(d.m))
        padded == IF Len(ds) <= d.e THEN Repeat(48, d.e + 1 - Len(ds)) \o ds ELSE ds
        k      == Len(padded) - d.e
    IN  (IF d.m < 0 THEN <<45>> ELSE <<>>)
        \o SubSeq(padded, 1, k)
        \o (IF d.e > 0 THEN <<46>> \o SubSeq(padded, k + 1, Len(padded)) ELSE <<>>)

DecMul(a, b) == Dec(a.m * b.m, a.e + b.e)

DecAdd(a, b) ==
    LET e == IF a.e > b.e THEN a.e ELSE b.e
    IN  Dec(a.m * Pow10(e - a.e) + b.m * Pow10(e - b.e), e)

DecSub(a, b) == DecAdd(a, Dec(-b.m, b.e))

DecAbs(a) == Dec(Abs(a.m), a.e)

\* a > b and a == b compare values, not representations.
DecGt(a, b) == DecSub(a, b).m > 0
DecEq(a, b) == DecSub(a, b).m = 0

RECURSIVE DecSum(_)
DecSum(ds) == IF ds = <<>> THEN Dec(0, 0) ELSE DecAdd(DecSum(SubSeq(ds, 1, Len(ds) - 1)), ds[Len(ds)])

\* quantize(..., rounding=ROUND_HALF_EVEN): ties go to the even neighbour.
Quantize_HalfEven(d, places) ==
    IF d.e <= places THEN Dec(d.m * Pow10(places - d.e), places)
    ELSE LET unit == Pow10(d.e - places)
             q    == Abs(d.m) \div unit
             r    == Abs(d.m) % unit
             up   == 2 * r > unit \/ (2 * r = unit /\ q % 2 = 1)
             mag  == IF up THEN q + 1 ELSE q
         IN  Dec(IF d.m < 0 THEN -mag ELSE mag, places)

\* quantize(Decimal(10) ** -places, rounding=ROUND_HALF_UP): ties go away from zero.
Quantize(d, places) ==
    IF d.e <= places THEN Dec(d.m * Pow10(places - d.e), places)
    ELSE LET unit == Pow10(d.e - places)
             q    == Abs(d.m) \div unit
             r    == Abs(d.m) % unit
             mag  == IF 2 * r >= unit THEN q + 1 ELSE q
         IN  Dec(IF d.m < 0 THEN -mag ELSE mag, places)

----------------------------------------------------------------------------
(* utils/xml_builder.py                                                    *)
(*                                                                         *)
(* The document is the element tree as a record: a field holds the text of *)
(* the element of that name, None where the element is absent.  An element  *)
(* written with empty text reads back with text None (lxml), so <<>> and    *)
(* None are both "no text" to the validator.                               *)

Txt_388      == <<51, 56, 56>>
Txt_381      == <<51, 56, 49>>
Txt_383      == <<51, 56, 51>>
Txt_Standard == <<48, 49, 48, 48, 48, 48, 48>>     \* "0100000"
Txt_Simple   == <<48, 50, 48, 48, 48, 48, 48>>     \* "0200000"
Txt_QR       == <<81, 82>>                         \* "QR"
Txt_VAT      == <<86, 65, 84>>                     \* "VAT"
Txt_SA       == <<83, 65>>                         \* "SA"
Txt_S        == <<83>>                             \* "S"
Txt_015      == <<48, 46, 49, 53>>                 \* "0.15"
Txt_Uuid     == <<117, 117, 105, 100>>             \* the text of a fresh uuid4

INVOICE_TYPE_CODES_NoDebit(invoice_type) ==
    CASE invoice_type = "credit_note" -> Txt_381
      [] OTHER -> Txt_388

\* INVOICE_TYPE_CODES.get(invoice_type, "388")
INVOICE_TYPE_CODES(invoice_type) ==
    CASE invoice_type = "standard"    -> Txt_388
      [] invoice_type = "simplified"  -> Txt_388
      [] invoice_type = "credit_note" -> Txt_381
      [] invoice_type = "debit_note"  -> Txt_383
      [] OTHER -> Txt_388

\* INVOICE_SUBTYPE_CODES.get(invoice_type, "0100000")
INVOICE_SUBTYPE_CODES(invoice_type) ==
    CASE invoice_type = "standard"   -> Txt_Standard
      [] invoice_type = "simplified" -> Txt_Simple
      [] OTHER -> Txt_Standard

round_decimal_HalfEven(value, places) == Quantize_HalfEven(value, places)

\* _round_decimal
round_decimal(value, places) == Quantize(value, places)

\* datetime.now(timezone.utc).strftime("%H:%M:%S") at second t of the day
TwoDigits(n) == <<48 + (n \div 10), 48 + (n % 10)>>
TimeStr(t) ==
    TwoDigits(t \div 3600) \o <<58>> \o TwoDigits((t \div 60) % 60) \o <<58>> \o TwoDigits(t % 60)

\* _build_party
build_party(name, vat_number, address, city) ==
    [ StreetName         |-> IF address # <<>> THEN address ELSE None,
      CityName           |-> IF city # <<>> THEN city ELSE None,
      IdentificationCode |-> Txt_SA,
      CompanyID          |-> IF vat_number \notin {None, <<>>} THEN vat_number ELSE None,
      RegistrationName   |-> name ]

\* The Decimal conversions of one line item (vat_rate defaults to "0.15").
ItemQty(item)   == DecParse(item.quantity)
ItemPrice(item) == DecParse(item.unit_price)
ItemRate(item)  == DecParse(IF item.vat_rate = None THEN Txt_015 ELSE item.vat_rate)

\* The first loop raises (KeyError, decimal.InvalidOperation) on such an item.
ItemRaises(item) ==
    \/ item.name = None
    \/ ~ItemQty(item).ok \/ ~ItemPrice(item).ok \/ ~ItemRate(item).ok

\* One entry of processed_items.
ProcessItem(item) ==
    LET qty         == ItemQty(item)
        price       == ItemPrice(item)
        vat_rate    == ItemRate(item)
        line_amount == round_decimal(DecMul(qty, price), 2)
        line_vat    == round_decimal(DecMul(line_amount, vat_rate), 2)
    IN  [ name         |-> item.name,
          quantity     |-> qty,
          unit_price   |-> price,
          vat_rate     |-> vat_rate,
          vat_category |-> IF item.vat_category = None THEN Txt_S ELSE item.vat_category,
          line_amount  |-> line_amount,
          line_vat     |-> line_vat ]

ProcessedItems(line_items) == [i \in 1..Len(line_items) |-> ProcessItem(line_items[i])]

Column(items, f) == [i \in 1..Len(items) |-> items[i][f]]

\* total_with_vat taken from the unrounded products, one rounding at the end.
TotalWithVat_Unrounded(items) ==
    round_decimal(
        DecAdd(DecSum([i \in 1..Len(items) |-> DecMul(items[i].quantity, items[i].unit_price)]),
               DecSum([i \in 1..Len(items) |->
                          DecMul(DecMul(items[i].quantity, items[i].unit_price),
                                 items[i].vat_rate)])), 2)

\* total_with_vat = _round_decimal(total_taxable + total_vat)
TotalWithVat(items) ==
    round_decimal(DecAdd(DecSum(Column(items, "line_amount")),
                         DecSum(Column(items, "line_vat"))), 2)

\* Dictionary key (vat_rate, vat_category), rate alone.
SameTaxGroup_RateOnly(a, b) == DecEq(a.vat_rate, b.vat_rate)

\* Dictionary key (vat_rate, vat_category): Decimals are equal by value.
SameTaxGroup(a, b) == DecEq(a.vat_rate, b.vat_rate) /\ a.vat_category = b.vat_category

\* tax_groups in insertion order, each as its TaxSubtotal element.
TaxSubtotals(items) ==
    LET n       == Len(items)
        firsts  == SelectSeq([i \in 1..n |-> i],
                             LAMBDA i : \A j \in 1..(i - 1) : ~SameTaxGroup(items[j], items[i]))
        members(i) == SelectSeq(items, LAMBDA it : SameTaxGroup(items[i], it))
    IN  [g \in 1..Len(firsts) |->
            LET key == items[firsts[g]]
                mem == members(firsts[g])
            IN  [ TaxableAmount |-> DecStr(round_decimal(DecSum(Column(mem, "line_amount")), 2)),
                  TaxAmount     |-> DecStr(round_decimal(DecSum(Column(mem, "line_vat")), 2)),
                  ID            |-> key.vat_category,
                  Percent       |-> DecStr(round_decimal(DecMul(key.vat_rate, Dec(100, 0)), 0)) ]]

\* One InvoiceLine element.
InvoiceLine(idx, item) ==
    [ ID                  |-> NatDigits(idx),
      InvoicedQuantity    |-> DecStr(item.quantity),
      LineExtensionAmount |-> DecStr(round_decimal(item.line_amount, 2)),
      TaxAmount           |-> DecStr(round_decimal(item.line_vat, 2)),
      RoundingAmount      |-> DecStr(round_decimal(DecAdd(item.line_amount, item.line_vat), 2)),
      Name                |-> item.name,
      CategoryID          |-> item.vat_category,
      Percent             |-> DecStr(round_decimal(DecMul(item.vat_rate, Dec(100, 0)), 0)),
      PriceAmount         |-> DecStr(round_decimal(item.unit_price, 2)) ]

\* build_invoice_xml(**r) with the clock at second t; raised = TRUE is the
\* exception of the first loop, and then there is no document.
build_invoice_xml(r, t) ==
    IF \E i \in 1..Len(r.line_items) : ItemRaises(r.line_items[i])
    THEN [run |-> TRUE, raised |-> TRUE]
    ELSE
    LET items          == ProcessedItems(r.line_items)
        total_taxable  == DecSum(Column(items, "line_amount"))
        total_vat      == DecSum(Column(items, "line_vat"))
        total_with_vat == TotalWithVat(items)
    IN  [ run |-> TRUE, raised |-> FALSE, parses |-> TRUE,
          ID                   |-> r.invoice_number,
          UUID                 |-> Txt_Uuid,
          IssueDate            |-> r.issue_date,
          IssueTime            |-> TimeStr(t),
          InvoiceTypeCode      |-> INVOICE_TYPE_CODES(r.invoice_type),
          InvoiceTypeCode_name |-> INVOICE_SUBTYPE_CODES(r.invoice_type),
          DocumentCurrencyCode |-> r.currency,
          TaxCurrencyCode      |-> r.currency,
          Note                 |-> IF r.note \notin {None, <<>>} THEN r.note ELSE None,
          QR                   |-> IF r.qr_data \notin {None, <<>>} THEN r.qr_data ELSE None,
          Supplier             |-> build_party(r.seller_name, r.seller_vat,
                                               r.seller_address, r.seller_city),
          Customer             |-> build_party(r.buyer_name, r.buyer_vat,
                                               r.buyer_address, r.buyer_city),
          TaxAmount            |-> DecStr(round_decimal(total_vat, 2)),
          TaxSubtotals         |-> TaxSubtotals(items),
          LineExtensionAmount  |-> DecStr(round_decimal(total_taxable, 2)),
          TaxExclusiveAmount   |-> DecStr(round_decimal(total_taxable, 2)),
          TaxInclusiveAmount   |-> DecStr(round_decimal(total_with_vat, 2)),
          PayableAmount        |-> DecStr(round_decimal(total_with_vat, 2)),
          InvoiceLines         |-> [i \in 1..Len(items) |-> InvoiceLine(i, items[i])] ]

\* Credit and debit notes.  The builder at hand takes no billing reference and
\* no instruction note, while server.py passes them and tests/test_credit_debit.py
\* reads them back; this part follows the specification and those tests.
\* cac:BillingReference/cac:InvoiceDocumentReference elements of the document.
BillingReference(r) ==
    IF r.billing_reference_id \in {None, <<>>} THEN <<>>
    ELSE << [ ID        |-> r.billing_reference_id,
              IssueDate |-> IF r.billing_reference_date \in {None, <<>>}
                            THEN None ELSE r.billing_reference_date ] >>

\* cac:PaymentMeans elements of the document.
PaymentMeans(r) ==
    IF r.instruction_note \in {None, <<>>} THEN <<>>
    ELSE << [InstructionNote |-> r.instruction_note] >>

\* The document of build_invoice_xml with the credit/debit-note elements.
BuildDocument(r, t) ==
    LET d == build_invoice_xml(r, t)
    IN  IF d.raised THEN d
        ELSE d @@ [BillingReference |-> BillingReference(r), PaymentMeans |-> PaymentMeans(r)]

----------------------------------------------------------------------------
(* utils/validation.py: validate_invoice_xml                               *)

Present(elems) == SelectSeq(elems, LAMBDA x : x # None)

\* _xpath_text: the text of the first matching element, None if there is no
\* match or the first match has no text.
xpath_text(elems) ==
    LET found == Present(elems)
    IN  IF found = <<>> \/ found[1] = <<>> THEN None ELSE found[1]

\* //cbc:ID in document order: the invoice's own ID, the IDs of the billing
\* references, the QR reference ID, the tax-scheme IDs of the parties, the
\* category and scheme IDs of each subtotal, and per line its ID and its
\* category and scheme IDs.
AllIDs(d) ==
    <<d.ID>>
    \o Column(d.BillingReference, "ID")
    \o (IF d.QR # None THEN <<Txt_QR>> ELSE <<>>)
    \o (IF d.Supplier.CompanyID # None THEN <<Txt_VAT>> ELSE <<>>)
    \o (IF d.Customer.CompanyID # None THEN <<Txt_VAT>> ELSE <<>>)
    \o Flatten([g \in 1..Len(d.TaxSubtotals) |-> <<d.TaxSubtotals[g].ID, Txt_VAT>>])
    \o Flatten([i \in 1..Len(d.InvoiceLines) |->
                   <<d.InvoiceLines[i].ID, d.InvoiceLines[i].CategoryID, Txt_VAT>>])

\* //cbc:IssueDate in document order: the invoice's own, then the billing references'.
AllIssueDates(d) == <<d.IssueDate>> \o Column(d.BillingReference, "IssueDate")

\* //cac:TaxTotal/cbc:TaxAmount in document order: the aggregate, then the lines'.
AllTaxAmounts(d) == <<d.TaxAmount>> \o Column(d.InvoiceLines, "TaxAmount")

\* Characters \d matches in a str pattern (decimal digits), as far as inputs go.
IsDecimalChar(c) ==
    \/ c >= 48 /\ c <= 57
    \/ c >= 1632 /\ c <= 1641
    \/ c >= 1776 /\ c <= 1785

\* re.match(r"^\d{4}-\d{2}-\d{2}$", s): $ also matches before a final newline.
MatchesDate(s) ==
    /\ Len(s) = 10 \/ (Len(s) = 11 /\ s[11] = 10)
    /\ \A i \in 1..10 : IF i \in {5, 8} THEN s[i] = 45 ELSE IsDecimalChar(s[i])

Tolerance_Strict == Dec(0, 2)

Tolerance == Dec(1, 2)

startswith01_Simplified(s) == Len(s) >= 2 /\ s[1] = 48 /\ s[2] \in {49, 50}

startswith01(s) == Len(s) >= 2 /\ s[1] = 48 /\ s[2] = 49

\* BR-11 for line idx: <<errors, warnings>> it appends.
CheckLine(idx, line) ==
    LET qty_text   == xpath_text(<<line.InvoicedQuantity>>)
        price_text == xpath_text(<<line.PriceAmount>>)
        ext_text   == xpath_text(<<line.LineExtensionAmount>>)
    IN  IF qty_text = None \/ price_text = None \/ ext_text = None THEN << <<>>, <<>> >>
        ELSE LET qty   == DecParse(qty_text)
                 price == DecParse(price_text)
                 ext   == DecParse(ext_text)
             IN  IF ~qty.ok \/ ~price.ok \/ ~ext.ok
                 THEN << <<>>, <<"BR-11: Could not validate math on line " \o ToString(idx)>> >>
                 ELSE LET expected == Quantize(DecMul(qty, price), 2)
                      IN  IF DecGt(DecAbs(DecSub(expected, ext)), Tolerance)
                          THEN << <<"BR-11: Line " \o ToString(idx) \o " total mismatch">>, <<>> >>
                          ELSE << <<>>, <<>> >>

\* BR-14: <<errors, warnings>> it appends.
CheckTotals(tax_exclusive, tax_amount_text, tax_inclusive) ==
    IF tax_exclusive = None \/ tax_amount_text = None \/ tax_inclusive = None
    THEN << <<>>, <<>> >>
    ELSE LET excl == DecParse(tax_exclusive)
             tax  == DecParse(tax_amount_text)
             incl == DecParse(tax_inclusive)
         IN  IF ~excl.ok \/ ~tax.ok \/ ~incl.ok
             THEN << <<>>, <<"BR-14: Could not cross-check invoice totals">> >>
             ELSE LET expected_incl == Quantize(DecAdd(excl, tax), 2)
                  IN  IF DecGt(DecAbs(DecSub(expected_incl, incl)), Tolerance)
                      THEN << <<"BR-14: Tax inclusive amount mismatch">>, <<>> >>
                      ELSE << <<>>, <<>> >>

ChecksRun == 14

\* A result that counts warnings against validity.
Result_WarningsCount(errors, warnings) ==
    [is_valid |-> errors = <<>> /\ warnings = <<>>, errors |-> errors, warnings |-> warnings,
     checks_run |-> ChecksRun]

\* The dict returned after the rule checks.
Result(errors, warnings) ==
    [is_valid |-> Len(errors) = 0, errors |-> errors, warnings |-> warnings,
     checks_run |-> ChecksRun]

\* validate_invoice_xml; messages are kept up to their variable tail.  A text
\* that str.encode cannot turn into UTF-8 (it holds a lone surrogate) raises
\* UnicodeEncodeError, which the except clause does not catch.
validate_invoice_xml(d) ==
    IF ~d.parses
    THEN IF ~d.encodes
         THEN [raises |-> "UnicodeEncodeError"]
         ELSE [is_valid |-> FALSE, errors |-> <<"Invalid XML">>, warnings |-> <<>>]
    ELSE
    LET invoice_id  == xpath_text(AllIDs(d))
        issue_date  == xpath_text(AllIssueDates(d))
        type_code   == xpath_text(<<d.InvoiceTypeCode>>)
        currency    == xpath_text(<<d.DocumentCurrencyCode>>)
        seller_name == xpath_text(<<d.Supplier.RegistrationName>>)
        seller_vat  == xpath_text(<<d.Supplier.CompanyID>>)
        buyer_name  == xpath_text(<<d.Customer.RegistrationName>>)
        subtype     == Present(<<d.InvoiceTypeCode_name>>)
        buyer_vat   == xpath_text(<<d.Customer.CompanyID>>)
        lines       == d.InvoiceLines
        lineChecks  == [i \in 1..Len(lines) |-> CheckLine(i, lines[i])]
        tax_amount_text == xpath_text(AllTaxAmounts(d))
        payable     == xpath_text(<<d.PayableAmount>>)
        totals      == CheckTotals(xpath_text(<<d.TaxExclusiveAmount>>), tax_amount_text,
                                   xpath_text(<<d.TaxInclusiveAmount>>))
        errors ==
            IfErr(invoice_id = None, "BR-01: Invoice ID (cbc:ID) is mandatory")
            \o (IF issue_date = None
                THEN <<"BR-02: Issue Date (cbc:IssueDate) is mandatory">>
                ELSE IfErr(~MatchesDate(issue_date), "BR-02: Issue Date must be YYYY-MM-DD format"))
            \o (IF type_code = None
                THEN <<"BR-03: Invoice Type Code is mandatory">>
                ELSE IfErr(type_code \notin {Txt_388, Txt_381, Txt_383},
                           "BR-03: Invalid Invoice Type Code"))
            \o IfErr(currency = None, "BR-04: Document Currency Code is mandatory")
            \o IfErr(seller_name = None, "BR-05: Seller name is mandatory")
            \o (IF seller_vat # None
                THEN LET ves == validate_vat_number(seller_vat)
                     IN  [i \in 1..Len(ves) |-> "BR-06: Seller VAT - " \o ves[i]]
                ELSE <<"BR-06: Seller VAT number is mandatory">>)
            \o IfErr(buyer_name = None, "BR-07: Buyer name is mandatory")
            \o IfErr(subtype # <<>> /\ startswith01(subtype[1]) /\ buyer_vat = None,
                     "BR-08: Buyer VAT number is mandatory for standard (B2B) invoices")
            \o IfErr(lines = <<>>, "BR-10: Invoice must have at least one line item")
            \o Flatten([i \in 1..Len(lines) |-> lineChecks[i][1]])
            \o IfErr(tax_amount_text = None, "BR-12: Tax total is mandatory")
            \o IfErr(payable = None, "BR-13: Payable amount is mandatory")
            \o totals[1]
        warnings ==
            Flatten([i \in 1..Len(lines) |-> lineChecks[i][2]])
            \o totals[2]
            \o IfErr(xpath_text(<<d.UUID>>) = None, "Invoice UUID is recommended")
            \o IfErr(xpath_text(<<d.Supplier.StreetName>>) = None,
                     "Seller street address is recommended")
    IN  Result(errors, warnings)

\* Rules BR-15 and BR-16 and the count of 16.  validate_invoice_xml at hand
\* stops at BR-14, while tests/test_credit_debit.py expects these rules; this
\* part follows the specification and those tests.
IsCreditDebit(d) == xpath_text(<<d.InvoiceTypeCode>>) \in {Txt_381, Txt_383}

CheckReferences_AllTypes(d) ==
    << IfErr(xpath_text(Column(d.BillingReference, "ID")) = None,
             "BR-15: Billing reference is mandatory for credit and debit notes"),
       IfErr(xpath_text(Column(d.PaymentMeans, "InstructionNote")) = None,
             "BR-16: Instruction note is recommended for credit and debit notes") >>

\* <<errors, warnings>> of BR-15 and BR-16.
CheckReferences(d) ==
    IF ~IsCreditDebit(d) THEN << <<>>, <<>> >>
    ELSE << IfErr(xpath_text(Column(d.BillingReference, "ID")) = None,
                  "BR-15: Billing reference is mandatory for credit and debit notes"),
            IfErr(xpath_text(Column(d.PaymentMeans, "InstructionNote")) = None,
                  "BR-16: Instruction note is recommended for credit and debit notes") >>

ChecksRunCreditDebit == 16

\* The validation result with the credit/debit-note rules applied.
ValidateDocument(d) ==
    LET base == validate_invoice_xml(d)
    IN  IF ~d.parses THEN base
        ELSE LET refs   == CheckReferences(d)
                 errors == base.errors \o refs[1]
             IN  [ is_valid   |-> base.is_valid /\ refs[1] = <<>>,
                   errors     |-> errors,
                   warnings   |-> base.warnings \o refs[2],
                   checks_run |-> IF IsCreditDebit(d) THEN ChecksRunCreditDebit
                                  ELSE base.checks_run ]

----------------------------------------------------------------------------
(* server.py: the generate_invoice tool                                    *)

MaxNameLen == 200
MaxAddressLen == 500

\* The first length limit a field exceeds, "" if none (checked in this order).
LengthError(r) ==
    IF Len(r.seller_name) > MaxNameLen THEN "seller_name exceeds 200 character limit"
    ELSE IF Len(r.buyer_name) > MaxNameLen THEN "buyer_name exceeds 200 character limit"
    ELSE IF Len(r.seller_address) > MaxAddressLen THEN "seller_address exceeds 500 character limit"
    ELSE IF Len(r.seller_city) > MaxNameLen THEN "seller_city exceeds 200 character limit"
    ELSE IF Len(r.buyer_address) > MaxAddressLen THEN "buyer_address exceeds 500 character limit"
    ELSE IF Len(r.buyer_city) > MaxNameLen THEN "buyer_city exceeds 200 character limit"
    ELSE ""

\* The check of one line item: its error text, "" if it passes.  float() of
\* the value succeeds on the texts Decimal accepts.
ItemError(idx, item) ==
    LET line == "Line item " \o ToString(idx)
    IN  IF item.name = None THEN line \o " missing required field: name"
        ELSE IF item.quantity = None THEN line \o " missing required field: quantity"
        ELSE IF item.unit_price = None THEN line \o " missing required field: unit_price"
        ELSE IF ~DecParse(item.quantity).ok \/ ~DecParse(item.unit_price).ok
             THEN line \o ": quantity and unit_price must be numeric"
        ELSE IF DecParse(item.quantity).m <= 0 THEN line \o ": quantity must be positive"
        ELSE IF DecParse(item.unit_price).m < 0 THEN line \o ": unit_price must be non-negative"
        ELSE ""

RequestError_VatFirst(r) ==
    LET items == r.line_items
        bad   == {i \in 1..Len(items) : ItemError(i, items[i]) # ""}
        first == CHOOSE i \in bad : \A j \in bad : i <= j
        ves   == validate_vat_number(r.seller_vat)
    IN  IF ~MatchesDate(r.issue_date)
        THEN [error |-> "issue_date must be YYYY-MM-DD format", details |-> <<>>]
        ELSE IF LengthError(r) # "" THEN [error |-> LengthError(r), details |-> <<>>]
        ELSE IF ves # <<>> THEN [error |-> "Invalid seller VAT", details |-> ves]
        ELSE IF ~r.items_json THEN [error |-> "Invalid items JSON", details |-> <<>>]
        ELSE IF items = <<>>
             THEN [error |-> "At least one line item is required", details |-> <<>>]
        ELSE IF bad # {} THEN [error |-> ItemError(first, items[first]), details |-> <<>>]
        ELSE IF r.invoice_type = "standard" /\ r.buyer_vat \in {None, <<>>}
             THEN [error |-> "Buyer VAT number is required for standard (B2B) invoices",
                   details |-> <<>>]
        ELSE [error |-> "", details |-> <<>>]

\* The request checks in order: the error object of the first that fails, or
\* [error |-> ""] when all pass.
RequestError(r) ==
    LET items == r.line_items
        bad   == {i \in 1..Len(items) : ItemError(i, items[i]) # ""}
        first == CHOOSE i \in bad : \A j \in bad : i <= j
        ves   == validate_vat_number(r.seller_vat)
    IN  IF ~MatchesDate(r.issue_date)
        THEN [error |-> "issue_date must be YYYY-MM-DD format", details |-> <<>>]
        ELSE IF LengthError(r) # "" THEN [error |-> LengthError(r), details |-> <<>>]
        ELSE IF ~r.items_json THEN [error |-> "Invalid items JSON", details |-> <<>>]
        ELSE IF items = <<>>
             THEN [error |-> "At least one line item is required", details |-> <<>>]
        ELSE IF bad # {} THEN [error |-> ItemError(first, items[first]), details |-> <<>>]
        ELSE IF ves # <<>> THEN [error |-> "Invalid seller VAT", details |-> ves]
        ELSE IF r.invoice_type = "standard" /\ r.buyer_vat \in {None, <<>>}
             THEN [error |-> "Buyer VAT number is required for standard (B2B) invoices",
                   details |-> <<>>]
        ELSE [error |-> "", details |-> <<>>]

\* The QR amounts of generate_invoice: sums of the products as they are,
\* each total quantized once: <<total_with_vat, total_vat_rounded>>.
QrTotals(items) ==
    LET product(i) == DecMul(ItemQty(items[i]), ItemPrice(items[i]))
        total_taxable == DecSum([i \in 1..Len(items) |-> product(i)])
        total_vat     == DecSum([i \in 1..Len(items) |-> DecMul(product(i), ItemRate(items[i]))])
    IN  << Quantize(DecAdd(total_taxable, total_vat), 2), Quantize(total_vat, 2) >>

\* The arguments of the encode_tlv call, the clock read at second t.
QrFields(r, t) ==
    [ seller_name      |-> r.seller_name,
      vat_number       |-> r.seller_vat,
      timestamp        |-> r.issue_date \o <<84>> \o TimeStr(t) \o <<90>>,
      total_amount     |-> DecStr(QrTotals(r.line_items)[1]),
      vat_amount       |-> DecStr(QrTotals(r.line_items)[2]),
      invoice_hash     |-> None,
      ecdsa_signature  |-> None,
      ecdsa_public_key |-> None ]

generate_invoice_DropsReferences(r, t1, t2) ==
    LET err == RequestError(r)
    IN  IF err.error # ""
        THEN << [run |-> TRUE, kind |-> "error", error |-> err.error, details |-> err.details],
                NotRun >>
        ELSE IF \E i \in 1..Len(r.line_items) : ~ItemRate(r.line_items[i]).ok
        THEN << [run |-> TRUE, kind |-> "exception", error |-> "InvalidOperation",
                 details |-> <<>>], NotRun >>
        ELSE LET qr_data == encode_tlv(QrFields(r, t1))
             IN  IF ~qr_data.ok
                 THEN << [run |-> TRUE, kind |-> "exception", error |-> "ValueError",
                          details |-> <<>>], NotRun >>
                 ELSE << [run |-> TRUE, kind |-> "xml", error |-> "", details |-> <<>>],
                         BuildDocument([r EXCEPT !.qr_data = qr_data.value,
                                                 !.billing_reference_id = None,
                                                 !.billing_reference_date = None,
                                                 !.instruction_note = None], t2) >>

\* generate_invoice with the tool reading the clock at t1 and the builder at
\* t2: <<what is returned, the document built>>.  An exception that escapes
\* the tool (InvalidOperation on a vat_rate, ValueError of encode_tlv) is
\* kind "exception".
generate_invoice(r, t1, t2) ==
    LET err == RequestError(r)
    IN  IF err.error # ""
        THEN << [run |-> TRUE, kind |-> "error", error |-> err.error, details |-> err.details],
                NotRun >>
        ELSE IF \E i \in 1..Len(r.line_items) : ~ItemRate(r.line_items[i]).ok
        THEN << [run |-> TRUE, kind |-> "exception", error |-> "InvalidOperation",
                 details |-> <<>>], NotRun >>
        ELSE LET qr_data == encode_tlv(QrFields(r, t1))
             IN  IF ~qr_data.ok
                 THEN << [run |-> TRUE, kind |-> "exception", error |-> "ValueError",
                          details |-> <<>>], NotRun >>
                 ELSE << [run |-> TRUE, kind |-> "xml", error |-> "", details |-> <<>>],
                         BuildDocument([r EXCEPT !.qr_data = qr_data.value], t2) >>

----------------------------------------------------------------------------
(* utils/tlv.py: decode_tlv_named                                          *)

TagName(k) == IF k \in DOMAIN TAG_NAMES THEN TAG_NAMES[k] ELSE "tag_" \o ToString(k)

\* decode_tlv_named: the mapping of decode_tlv with tag names for keys.
decode_tlv_named(base64_string) ==
    LET raw == decode_tlv(base64_string)
    IN  IF ~raw.ok THEN raw
        ELSE [ok |-> TRUE, error |-> "",
              result |-> [n \in {TagName(k) : k \in DOMAIN raw.result} |->
                             raw.result[CHOOSE k \in DOMAIN raw.result : TagName(k) = n]]]

\* dict.get(key, default)
Get(dict, key, default) == IF key \in DOMAIN dict THEN dict[key] ELSE default

----------------------------------------------------------------------------
(* utils/signing.py                                                        *)
(*                                                                         *)
(* A signed document is the document record with one more field,           *)
(* UBLExtensions: the ext:UBLExtensions children of the Invoice root in     *)
(* document order, each holding one ds:Signature.  Keys and certificates    *)
(* are records: ok tells whether the PEM text loads, id tells keys apart.   *)

\* root.findall("{ext}UBLExtensions")
UBLExtensions(d) == IF "UBLExtensions" \in DOMAIN d THEN d.UBLExtensions ELSE <<>>

Element(text) == IF text = None THEN <<0>> ELSE <<1>> \o text

Elements(rec, names) == Flatten([i \in 1..Len(names) |-> Element(rec[names[i]])])

PartyNames == <<"StreetName", "CityName", "IdentificationCode", "CompanyID", "RegistrationName">>

LineNames == <<"ID", "InvoicedQuantity", "LineExtensionAmount", "TaxAmount", "RoundingAmount",
               "Name", "CategoryID", "Percent", "PriceAmount">>

\* canonicalize_xml: the element texts of a copy of the document in document
\* order, the UBLExtensions children of the root left out.
canonicalize_xml(d) ==
    Elements(d, <<"ID", "UUID", "IssueDate", "IssueTime", "InvoiceTypeCode",
                  "InvoiceTypeCode_name", "DocumentCurrencyCode", "TaxCurrencyCode", "Note">>)
    \o Flatten([i \in 1..Len(d.BillingReference) |->
                   Elements(d.BillingReference[i], <<"ID", "IssueDate">>)])
    \o Element(d.QR)
    \o Elements(d.Supplier, PartyNames)
    \o Elements(d.Customer, PartyNames)
    \o Flatten([i \in 1..Len(d.PaymentMeans) |->
                   Elements(d.PaymentMeans[i], <<"InstructionNote">>)])
    \o Element(d.TaxAmount)
    \o Flatten([g \in 1..Len(d.TaxSubtotals) |->
                   Elements(d.TaxSubtotals[g], <<"TaxableAmount", "TaxAmount", "ID", "Percent">>)])
    \o Elements(d, <<"LineExtensionAmount", "TaxExclusiveAmount", "TaxInclusiveAmount",
                     "PayableAmount">>)
    \o Flatten([i \in 1..Len(d.InvoiceLines) |-> Elements(d.InvoiceLines[i], LineNames)])

\* Sum of f[lo..hi] modulo m, halving the range.
RECURSIVE SumMod(_, _, _, _)
SumMod(f, lo, hi, m) ==
    IF lo > hi THEN 0
    ELSE IF lo = hi THEN f[lo] % m
    ELSE LET mid == (lo + hi) \div 2
         IN  (SumMod(f, lo, mid, m) + SumMod(f, mid + 1, hi, m)) % m

DigestLen == 32

\* hashlib.sha256(bs).digest(): 32 bytes that depend on the bytes and on their
\* order only (two running sums stand for the compression function).
sha256(bs) ==
    LET s1 == SumMod([i \in 1..Len(bs) |-> bs[i] % 251], 1, Len(bs), 251)
        s2 == SumMod([i \in 1..Len(bs) |-> (i % 241) * (bs[i] % 241)], 1, Len(bs), 241)
    IN  [i \in 1..DigestLen |-> (s1 * i + s2 * (i + 1) + Len(bs)) % 256]

\* hash_invoice: base64 of the digest of the canonical document.
hash_invoice(d) == b64encode(sha256(canonicalize_xml(d)))

\* load_private_key: the key of a PEM text, ok = FALSE when loading raises.
load_private_key(pem) == pem

\* sign_hash: DER of an ECDSA signature (a SEQUENCE of two INTEGERs); the
\* signature depends on the key, on the hash and on the nonce k drawn by the
\* signer.
sign_hash(key, hash_bytes, k) ==
    <<48, 6, 2, 1, (key.id + hash_bytes[1] + hash_bytes[2]) % 128, 2, 1, k>>

PointLen == 65

\* get_public_key_bytes: the uncompressed point, 0x04 followed by 64 bytes.
get_public_key_bytes(key) == <<4>> \o Repeat(key.id, PointLen - 1)

\* "".join of the certificate's base64 lines
CertB64(cert) == <<77, 73, 73, 66>> \o <<48 + cert.id>>

Txt_Today == <<50, 48, 50, 52, 45, 48, 49, 45, 49, 53>>      \* the clock's date

\* inject_signature at second t with signer nonce k: [ok, xml]; ok = FALSE is
\* an exception (the certificate text is no base64).  The new UBLExtensions
\* is inserted as the first child of the root; nothing is removed.
inject_signature(d, cert, key, t, k) ==
    IF ~cert.ok THEN [ok |-> FALSE]
    ELSE LET invoice_digest == hash_invoice(d)
             signing_time   == Txt_Today \o <<84>> \o TimeStr(t) \o <<90>>
             si_digest      == sha256(Utf8Encode(invoice_digest \o signing_time))
             ds_sig == [ DigestValue      |-> <<invoice_digest>>,
                         SignatureValue   |-> <<b64encode(sign_hash(key, si_digest, k))>>,
                         X509Certificate  |-> <<CertB64(cert)>>,
                         SignedProperties |-> <<signing_time>> ]
         IN  [ok |-> TRUE,
              xml |-> [UBLExtensions |-> <<ds_sig>> \o UBLExtensions(d)] @@ d]

----------------------------------------------------------------------------
(* server.py: the sign_invoice tool                                        *)

\* The keyword arguments of the encode_tlv call that rebuilds the QR.
Phase2Fields_NoName(existing, invoice_hash, signature_bytes, pub_key_bytes) ==
    [ seller_name      |-> <<>>,
      vat_number       |-> Get(existing, "vat_number", <<>>),
      timestamp        |-> Get(existing, "timestamp", <<>>),
      total_amount     |-> Get(existing, "total_amount", <<>>),
      vat_amount       |-> Get(existing, "vat_amount", <<>>),
      invoice_hash     |-> invoice_hash,
      ecdsa_signature  |-> b64encode(signature_bytes),
      ecdsa_public_key |-> b64encode(pub_key_bytes) ]

Phase2Fields(existing, invoice_hash, signature_bytes, pub_key_bytes) ==
    [ seller_name      |-> Get(existing, "seller_name", <<>>),
      vat_number       |-> Get(existing, "vat_number", <<>>),
      timestamp        |-> Get(existing, "timestamp", <<>>),
      total_amount     |-> Get(existing, "total_amount", <<>>),
      vat_amount       |-> Get(existing, "vat_amount", <<>>),
      invoice_hash     |-> invoice_hash,
      ecdsa_signature  |-> b64encode(signature_bytes),
      ecdsa_public_key |-> b64encode(pub_key_bytes) ]

Signed(x, invoice_hash, qr_base64, signature_bytes, pub_key_bytes) ==
    [ kind |-> "signed", error |-> "", signed_xml |-> x, invoice_hash |-> invoice_hash,
      qr_base64 |-> qr_base64, signature_bytes |-> signature_bytes,
      pub_key_bytes |-> pub_key_bytes ]

Failed(kind, error) == [kind |-> kind, error |-> error]

\* sign_invoice(invoice_xml = d, certificate_pem, private_key_pem) at second t,
\* the signer drawing nonce k1 for the signature block and k2 for the QR
\* signature.  kind "error" is a returned error object, "exception" an
\* exception that leaves the tool, "signed" the result; signature_bytes and
\* pub_key_bytes are the call's locals of that name.
sign_invoice(d, certificate_pem, private_key_pem, t, k1, k2) ==
    LET key == load_private_key(private_key_pem)
    IN  IF ~key.ok THEN Failed("error", "Failed to load private key")
        ELSE IF ~d.parses
        THEN Failed("exception", IF d.encodes THEN "XMLSyntaxError" ELSE "UnicodeEncodeError")
        ELSE
        LET invoice_hash    == hash_invoice(d)
            injected        == inject_signature(d, certificate_pem, key, t, k1)
            signature_bytes == sign_hash(key, b64decode(invoice_hash), k2)
            pub_key_bytes   == get_public_key_bytes(key)
        IN  IF ~injected.ok THEN Failed("error", "Signing failed")
            ELSE IF d.QR \in {None, <<>>}
            THEN Signed(injected.xml, invoice_hash, <<>>, signature_bytes, pub_key_bytes)
            ELSE
            LET existing == decode_tlv_named(d.QR)
            IN  IF ~existing.ok THEN Failed("exception", existing.error)
                ELSE
                LET new_qr == encode_tlv(Phase2Fields(existing.result, invoice_hash,
                                                      signature_bytes, pub_key_bytes))
                IN  IF ~new_qr.ok THEN Failed("exception", new_qr.error)
                    ELSE Signed([injected.xml EXCEPT !.QR = new_qr.value], invoice_hash,
                                new_qr.value, signature_bytes, pub_key_bytes)

----------------------------------------------------------------------------
(* The core operations run by several threads.  An invocation keeps its     *)
(* arguments and its locals (acc) to itself; what the threads share is the  *)
(* module-level tables, which the operations read.                          *)

\* The tables as the modules define them.
ModuleTables ==
    [ TAG_NAMES             |-> TAG_NAMES,
      NS                    |-> {"", "cac", "cbc", "ext"},
      INVOICE_TYPE_CODES    |-> [ty \in {"standard", "simplified", "credit_note", "debit_note"}
                                    |-> INVOICE_TYPE_CODES(ty)],
      INVOICE_SUBTYPE_CODES |-> [ty \in {"standard", "simplified"}
                                    |-> INVOICE_SUBTYPE_CODES(ty)] ]

MaxThreads == 2
Threads == 1..MaxThreads

Idle == [pc |-> "idle"]

\* The locals of an invocation that has just been entered.
Entered(op) ==
    CASE op = "encode_tlv"           -> [i |-> 1, bytes |-> <<>>]
      [] op = "decode_tlv"           -> [stage |-> "b64decode"]
      [] op = "build_invoice_xml"    -> [stage |-> "type codes"]
      [] op = "validate_invoice_xml" -> [stage |-> "parse"]

Running(c, acc) == [c EXCEPT !.acc = acc]

Returned(c, result) == [op |-> c.op, arg |-> c.arg, t |-> c.t, pc |-> "done",
                        overlapped |-> c.overlapped, result |-> result]

\* encode_tlv: one segment is encoded and joined per step.
EncodeStep(c) ==
    LET tags == TlvTags(c.arg)
        i    == c.acc.i
    IN  IF i > Len(tags)
        THEN Returned(c, [ok |-> TRUE, error |-> "", value |-> b64encode(c.acc.bytes)])
        ELSE LET seg == TLVTag_encode(tags[i][1], tags[i][2])
             IN  IF ~seg.ok
                 THEN Returned(c, [ok |-> FALSE, error |-> "ValueError", value |-> None])
                 ELSE Running(c, [i |-> i + 1, bytes |-> c.acc.bytes \o seg.bytes])

\* decode_tlv: base64 first, then one turn of the while loop per step.
DecodeStep(c) ==
    IF c.acc.stage = "b64decode"
    THEN LET data == b64decode(c.arg)
         IN  IF data = None THEN Returned(c, [ok |-> FALSE, error |-> "binascii.Error"])
             ELSE Running(c, [stage |-> "loop", data |-> data, i |-> 0, result |-> <<>>])
    ELSE LET data == c.acc.data
             i    == c.acc.i
         IN  IF ~(i < Len(data))
             THEN Returned(c, [ok |-> TRUE, error |-> "", result |-> c.acc.result])
             ELSE IF i + 1 >= Len(data) THEN Returned(c, [ok |-> FALSE, error |-> "Truncated"])
             ELSE LET tag    == data[i + 1]
                      length == data[i + 2]
                  IN  IF i + 2 + length > Len(data)
                      THEN Returned(c, [ok |-> FALSE, error |-> "claims length"])
                      ELSE LET value == Utf8Decode(SubSeq(data, i + 3, i + 2 + length))
                           IN  IF value = None
                               THEN Returned(c, [ok |-> FALSE, error |-> "UnicodeDecodeError"])
                               ELSE Running(c, [c.acc EXCEPT
                                        !.i = i + 2 + length,
                                        !.result = [k \in DOMAIN c.acc.result \cup {tag} |->
                                                       IF k = tag THEN value
                                                       ELSE c.acc.result[k]]])

\* dict.get on a table
Lookup(table, key, default) == IF key \in DOMAIN table THEN table[key] ELSE default

\* build_invoice_xml: the type codes are read from the tables, then the items
\* are processed and the tree is written.
BuildStep(c, tabs) ==
    IF c.acc.stage = "type codes"
    THEN Running(c, [stage |-> "items",
                     code  |-> Lookup(tabs.INVOICE_TYPE_CODES, c.arg.invoice_type, Txt_388),
                     name  |-> Lookup(tabs.INVOICE_SUBTYPE_CODES, c.arg.invoice_type,
                                      Txt_Standard)])
    ELSE LET doc == BuildDocument(c.arg, c.t)
         IN  Returned(c, IF doc.raised THEN doc
                         ELSE [doc EXCEPT !.InvoiceTypeCode = c.acc.code,
                                          !.InvoiceTypeCode_name = c.acc.name])

\* validate_invoice_xml: the text is parsed, then the rules are evaluated on
\* the tree with the namespaces of the table.
ValidateStep(c, tabs) ==
    IF c.acc.stage = "parse"
    THEN IF ~c.arg.parses THEN Returned(c, validate_invoice_xml(c.arg))
         ELSE Running(c, [stage |-> "rules"])
    ELSE Returned(c, IF {"cac", "cbc"} \subseteq tabs.NS THEN validate_invoice_xml(c.arg)
                     ELSE [raises |-> "XPathEvalError"])

\* One step of invocation c.
StepOf(c, tabs) ==
    CASE c.op = "encode_tlv"           -> EncodeStep(c)
      [] c.op = "decode_tlv"           -> DecodeStep(c)
      [] c.op = "build_invoice_xml"    -> BuildStep(c, tabs)
      [] c.op = "validate_invoice_xml" -> ValidateStep(c, tabs)

\* A step that registers the invoice type it meets in the type-code table.
TablesAfter_Registers(c, tabs) ==
    IF c.op = "build_invoice_xml"
    THEN [tabs EXCEPT !.INVOICE_TYPE_CODES =
             [ty \in DOMAIN tabs.INVOICE_TYPE_CODES \cup {c.arg.invoice_type} |-> Txt_388]]
    ELSE tabs

\* The tables after a step of invocation c: no statement of the four
\* operations assigns to a module-level name or to an entry of a table.
TablesAfter(c, tabs) == tabs

----------------------------------------------------------------------------
(* api/client.py: ZATCAClient, and the submit_invoice and                  *)
(* check_compliance tools of server.py.  A request is what httpx posts:    *)
(* its URL, its headers and its JSON payload.                              *)

SANDBOX_BASE_URL == "https://gw-fatoora.zatca.gov.sa/e-invoicing/developer-portal"

PRODUCTION_BASE_URL == "https://gw-fatoora.zatca.gov.sa/e-invoicing/core"

COMMON_HEADERS ==
    [ Content_Type |-> "application/json", Accept |-> "application/json",
      Accept_Version |-> "V2", Accept_Language |-> "en" ]

ZATCAClient_ProductionByName(certificate, secret, environment) ==
    [ certificate |-> certificate, secret |-> secret,
      base_url |-> IF environment = "production" THEN PRODUCTION_BASE_URL
                   ELSE SANDBOX_BASE_URL ]

\* ZATCAClient.__init__
ZATCAClient(certificate, secret, environment) ==
    [ certificate |-> certificate, secret |-> secret,
      base_url |-> IF environment = "sandbox" THEN SANDBOX_BASE_URL
                   ELSE PRODUCTION_BASE_URL ]

\* _auth_header: the text after "Basic ", base64 of certificate:secret.
auth_header(client) ==
    [Authorization |-> b64encode(Utf8Encode(client.certificate \o <<58>> \o client.secret))]

Payload(xml_b64, invoice_hash, uuid) ==
    [invoiceHash |-> invoice_hash, uuid |-> uuid, invoice |-> xml_b64]

\* ZATCAClient.check_compliance, up to the post.
client_check_compliance(client, xml_b64, invoice_hash, uuid) ==
    [ url     |-> client.base_url \o "/compliance/invoices",
      headers |-> COMMON_HEADERS @@ auth_header(client),
      json    |-> Payload(xml_b64, invoice_hash, uuid) ]

\* ZATCAClient.report_invoice, up to the post.
report_invoice(client, xml_b64, invoice_hash, uuid) ==
    [ url     |-> client.base_url \o "/invoices/reporting/single",
      headers |-> COMMON_HEADERS @@ auth_header(client) @@ [Clearance_Status |-> "0"],
      json    |-> Payload(xml_b64, invoice_hash, uuid) ]

\* ZATCAClient.clear_invoice, up to the post.
clear_invoice(client, xml_b64, invoice_hash, uuid) ==
    [ url     |-> client.base_url \o "/invoices/clearance/single",
      headers |-> COMMON_HEADERS @@ auth_header(client) @@ [Clearance_Status |-> "1"],
      json    |-> Payload(xml_b64, invoice_hash, uuid) ]

\* What a tool holds when it returns without posting (the import failed).
NotInstalled(tool, a) ==
    [ tool |-> tool, args |-> a, pc |-> "done", posted |-> <<>>,
      result |-> [error |-> "Phase 2 dependencies not installed", status |-> ""] ]

\* What a tool holds while it awaits the answer to the request it posted.
Awaiting(tool, a, req) ==
    [ tool |-> tool, args |-> a, pc |-> "awaiting", posted |-> <<req>>,
      result |-> [error |-> "", status |-> ""] ]

\* submit_invoice up to its await; installed tells whether httpx and
\* pydantic can be imported.
submit_invoice(a, installed) ==
    IF ~installed THEN NotInstalled("submit_invoice", a)
    ELSE LET client  == ZATCAClient(a.certificate, a.secret, a.environment)
             xml_b64 == b64encode(Utf8Encode(a.signed_invoice_xml))
         IN  Awaiting("submit_invoice", a,
                      IF a.mode = "clearance"
                      THEN clear_invoice(client, xml_b64, a.invoice_hash, a.invoice_uuid)
                      ELSE report_invoice(client, xml_b64, a.invoice_hash, a.invoice_uuid))

\* check_compliance (the tool) up to its await.
check_compliance(a, installed) ==
    IF ~installed THEN NotInstalled("check_compliance", a)
    ELSE LET client  == ZATCAClient(a.certificate, a.secret, a.environment)
             xml_b64 == b64encode(Utf8Encode(a.signed_invoice_xml))
         IN  Awaiting("check_compliance", a,
                      client_check_compliance(client, xml_b64, a.invoice_hash, a.invoice_uuid))

\* The tool after its await: the answer's status on success, the error
\* object of the except clause when the post, raise_for_status or
\* model_validate raised.
AfterAwait(h, answer) ==
    [h EXCEPT !.pc = "done",
              !.result = IF answer.raised
                         THEN [error |-> IF h.tool = "submit_invoice"
                                         THEN "ZATCA API request failed"
                                         ELSE "ZATCA compliance check failed",
                               status |-> ""]
                         ELSE [error |-> "", status |-> answer.status]]

----------------------------------------------------------------------------
(* Calls of the TLV codec: encode_tlv with keyword arguments, a QR text     *)
(* received from outside (decode_qr tool), decode_tlv of the current text. *)

Txt_Fikrah  == <<70, 105, 107, 114, 97, 104>>          \* "Fikrah"
Txt_Arabic  == <<1588, 1585, 1603, 1577>>              \* Arabic, 2 bytes per character
Txt_Wide    == <<8364, 128512>>                        \* 3-byte and 4-byte characters
Txt_Max     == Repeat(120, MaxValueLen)                \* "x" * 255
Txt_Over    == Repeat(120, MaxValueLen + 1)            \* "x" * 256
Txt_ArMax   == Repeat(1588, MaxValueLen \div 2) \o <<120>>   \* 128 characters, 255 bytes
Txt_ArOver  == Repeat(1588, (MaxValueLen + 1) \div 2)        \* 128 characters, 256 bytes
Txt_VatOk   == <<51>> \o Repeat(48, 13) \o <<51>>      \* "300000000000003"
Txt_Stamp   == <<50, 48, 50, 52, 45, 48, 49, 45, 49, 53, 84,
                 49, 48, 58, 51, 48, 58, 48, 48, 90>>   \* "2024-01-15T10:30:00Z"
Txt_Total   == <<49, 49, 53, 48, 46, 48, 48>>          \* "1150.00"
Txt_Vat     == <<49, 53, 48, 46, 48, 48>>              \* "150.00"

FieldSets ==
    [ seller_name      : {<<>>, Txt_Fikrah, Txt_Arabic, Txt_Wide,
                          Txt_Max, Txt_Over, Txt_ArMax, Txt_ArOver},
      vat_number       : {Txt_VatOk, <<>>},
      timestamp        : {Txt_Stamp},
      total_amount     : {Txt_Total, Txt_Over},
      vat_amount       : {Txt_Vat},
      invoice_hash     : {None, <<>>, <<104>>},
      ecdsa_signature  : {None, <<115>>},
      ecdsa_public_key : {None, <<107>>, Txt_Over} ]

\* Bytes an outside QR text is made of: small tags and lengths, "A", a
\* two-byte UTF-8 pair (195, 169) and a byte that never occurs in UTF-8.
PayloadBytes == {0, 1, 2, 3, 65, 195, 169, 255}
MaxPayloadLen == 4

RECURSIVE SeqsUpTo(_, _)
SeqsUpTo(S, n) ==
    IF n = 0 THEN {<<>>}
    ELSE LET shorter == SeqsUpTo(S, n - 1)
         IN  shorter \cup {Append(p, b) : p \in {q \in shorter : Len(q) = n - 1}, b \in S}

Payloads == SeqsUpTo(PayloadBytes, MaxPayloadLen)

\* One codec exchange per behaviour: a call is made on an idle codec.
EncodeTlv(f) ==
    /\ qr = NotRun
    /\ fields' = f
    /\ qr' = [src |-> "encode_tlv"] @@ encode_tlv(f)
    /\ decoded' = NotRun
    /\ UNCHANGED <<vat, vat_errors, request, xml, response, validation, edits, signing, tables, calls, http>>

ReceiveQr(p) ==
    /\ qr = NotRun
    /\ fields' = NotRun
    /\ qr' = [src |-> "external", ok |-> TRUE, error |-> "", value |-> b64encode(p)]
    /\ decoded' = NotRun
    /\ UNCHANGED <<vat, vat_errors, request, xml, response, validation, edits, signing, tables, calls, http>>

DecodeTlv ==
    /\ qr # NotRun
    /\ qr.ok
    /\ decoded = NotRun
    /\ decoded' = decode_tlv(qr.value)
    /\ UNCHANGED <<fields, qr, vat, vat_errors, request, xml, response, validation, edits, signing, tables, calls, http>>

Init ==
    /\ fields = NotRun
    /\ qr = NotRun
    /\ decoded = NotRun
    /\ vat = None
    /\ vat_errors = NotRun
    /\ request = NotRun
    /\ xml = NotRun
    /\ response = NotRun
    /\ validation = NotRun
    /\ edits = 0
    /\ signing = NotRun
    /\ tables = ModuleTables
    /\ calls = [th \in Threads |-> Idle]
    /\ http = NotRun

\* VAT numbers handed to the rule: a first character, a middle of about
\* VatLen - 2 characters and a last character, plus the absent and short ones.
VatSlack == 1

VatMiddles ==
    {Repeat(48, n) : n \in (VatLen - 2 - VatSlack)..(VatLen - 2 + VatSlack)}
    \cup {Repeat(48, VatLen - 3) \o <<97>>,       \* a letter inside
          Repeat(1632, VatLen - 2),              \* Arabic-Indic zeros
          <<>>}

VatInputs ==
    {None, <<>>, <<51>>}
    \cup {<<a>> \o mid \o <<z>> :
            a \in {51, 49, 97, 32, 1635},
            mid \in VatMiddles,
            z \in {51, 49, 120, 179, 1635}}

ValidateVatNumber(v) ==
    /\ vat_errors = NotRun
    /\ vat' = v
    /\ vat_errors' = [run |-> TRUE, errors |-> validate_vat_number(v)]
    /\ UNCHANGED <<fields, qr, decoded, request, xml, response, validation, edits, signing, tables, calls, http>>

NextVAT == vat_errors = NotRun /\ \E v \in VatInputs : ValidateVatNumber(v)

SpecVAT == Init /\ [][NextVAT]_vars

----------------------------------------------------------------------------
(* Calls of the builder, the validator and the generate_invoice tool       *)

Txt_Inv     == <<73, 78, 86, 45, 49>>                          \* "INV-1"
Txt_Date    == <<50, 48, 50, 52, 45, 48, 49, 45, 49, 53>>      \* "2024-01-15"
Txt_BadDate == <<49, 53, 47, 48, 49, 47, 50, 48, 50, 52>>      \* "15/01/2024"
Txt_Seller  == <<83, 101, 108, 108, 101, 114>>                 \* "Seller"
Txt_Buyer   == <<66, 117, 121, 101, 114>>                      \* "Buyer"
Txt_Street  == <<49, 32, 83, 116>>                             \* "1 St"
Txt_City    == <<82, 105, 121, 97, 100, 104>>                  \* "Riyadh"
Txt_SAR     == <<83, 65, 82>>                                  \* "SAR"
Txt_VatBuyer == <<51, 49>> \o Repeat(48, VatLen - 3) \o <<51>>  \* "310000000000003"
Txt_VatBad  == <<49, 50, 51>>                                  \* "123"
Txt_LongName == Repeat(120, MaxNameLen + 1)                    \* over the name limit

Item(name, quantity, unit_price, vat_rate, vat_category) ==
    [name |-> name, quantity |-> quantity, unit_price |-> unit_price,
     vat_rate |-> vat_rate, vat_category |-> vat_category]

Items ==
    { \* 1 x 1000.0 at the default rate and category
      Item(<<65>>, <<49>>, <<49, 48, 48, 48, 46, 48>>, None, None),
      \* 1 x 500, exempt at 0
      Item(<<66>>, <<49>>, <<53, 48, 48>>, <<48>>, <<69>>),
      \* 2 x 10.00, zero-rated at 0
      Item(<<70>>, <<50>>, <<49, 48, 46, 48, 48>>, <<48>>, <<90>>),
      \* 5 x 0.125 at 0.15: a tie at the third decimal
      Item(<<67>>, <<53>>, <<48, 46, 49, 50, 53>>, Txt_015, Txt_S),
      \* 2.5 x 20.0 at 0.150
      Item(<<68>>, <<50, 46, 53>>, <<50, 48, 46, 48>>, <<48, 46, 49, 53, 48>>, Txt_S),
      \* 1 x 0.10 at 0.15: VAT 0.015
      Item(<<69>>, <<49>>, <<48, 46, 49, 48>>, Txt_015, Txt_S),
      \* quantity 0
      Item(<<90>>, <<48>>, <<49, 48>>, None, None),
      \* quantity "abc"
      Item(<<78>>, <<97, 98, 99>>, <<49, 48>>, None, None) }

MaxItems == 2

ItemLists == SeqsUpTo(Items, MaxItems)

InvoiceTypes == {"standard", "simplified", "credit_note", "debit_note", "proforma"}

HeaderDefault ==
    [ invoice_number |-> Txt_Inv,    issue_date |-> Txt_Date,
      seller_name    |-> Txt_Seller, seller_vat |-> Txt_VatOk,
      seller_address |-> Txt_Street, buyer_name |-> Txt_Buyer,
      buyer_vat      |-> Txt_VatBuyer, currency |-> Txt_SAR ]

\* Values a header field takes besides its default.
HeaderChoices(names) ==
    [ invoice_number : {Txt_Inv, <<>>},
      issue_date     : {Txt_Date, Txt_BadDate},
      seller_name    : {Txt_Seller} \cup names,
      seller_vat     : {Txt_VatOk, Txt_VatBad, <<>>},
      seller_address : {Txt_Street, <<>>},
      buyer_name     : {Txt_Buyer, <<>>},
      buyer_vat      : {Txt_VatBuyer, None},
      currency       : {Txt_SAR, <<>>} ]

\* Headers that differ from the default in at most MaxFaults fields.
MaxFaults == 1

Headers(names) ==
    {h \in HeaderChoices(names) :
        Cardinality({k \in DOMAIN HeaderDefault : h[k] # HeaderDefault[k]}) <= MaxFaults}

\* Line-item lists sent under a header that departs from the default.
ShortLists == {li \in ItemLists : Len(li) <= 1}

Txt_RefId   == <<73, 78, 86, 45, 48>>                          \* "INV-0"
Txt_RefDate == <<50, 48, 50, 52, 45, 48, 49, 45, 48, 49>>      \* "2024-01-01"
Txt_Reason  == <<82, 101, 102, 117, 110, 100>>                 \* "Refund"

References(id, date, reason) ==
    [billing_reference_id |-> id, billing_reference_date |-> date, instruction_note |-> reason]

NoReferences == References(None, None, None)

\* What a request says about the original invoice and the reason.
ReferenceChoices ==
    { NoReferences,
      References(Txt_RefId, Txt_RefDate, Txt_Reason),
      References(Txt_RefId, Txt_RefDate, None),
      References(Txt_RefId, None, None),
      References(None, None, Txt_Reason) }

RequestsOf(headers, lists, refs, jsons) ==
    {h @@ ref @@
         [ invoice_type |-> ty, line_items |-> IF js THEN li ELSE <<>>, items_json |-> js,
           seller_city |-> Txt_City, buyer_address |-> <<>>, buyer_city |-> <<>>,
           note |-> None, qr_data |-> None ] :
        h \in headers, ty \in InvoiceTypes, li \in lists, ref \in refs, js \in jsons}

\* Direct calls of build_invoice_xml, and requests to the tool (whose items
\* arrive as JSON text that may not parse, and whose seller name may be long).
\* Every header is tried with no line and with each single line, and with
\* every choice of references; the default header is tried with every list
\* of lines.
BuildRequests ==
    RequestsOf(Headers({<<>>}), ShortLists, ReferenceChoices, {TRUE})
        \cup RequestsOf({HeaderDefault}, ItemLists, {NoReferences}, {TRUE})

\* Line items the tool turns down for a key that is absent or a negative
\* price, alone and after or before a line with another fault.
FaultyItems ==
    { Item(None, <<49>>, <<49, 48>>, None, None),              \* no "name"
      Item(<<77>>, None, <<49, 48>>, None, None),              \* no "quantity"
      Item(<<77>>, <<49>>, None, None, None),                  \* no "unit_price"
      Item(<<77>>, <<49>>, <<45, 53>>, None, None),            \* unit_price "-5"
      Item(<<77>>, <<48>>, <<45, 53>>, None, None),            \* quantity "0", unit_price "-5"
      Item(<<77>>, None, <<97, 98, 99>>, None, None) }         \* no "quantity", unit_price "abc"

FaultyLists ==
    {<<f>> : f \in FaultyItems}
        \cup {<<f, g>> : f \in FaultyItems,
                         g \in {Item(<<78>>, <<97, 98, 99>>, <<49, 48>>, None, None)}}
        \cup {<<g, f>> : f \in FaultyItems,
                         g \in {Item(<<65>>, <<49>>, <<49, 48, 48, 48, 46, 48>>, None, None)}}

\* Headers the faulty lines are sent under: the default, and one that fails
\* a check before the lines or after them.
FaultyHeaders ==
    { HeaderDefault,
      [HeaderDefault EXCEPT !.issue_date = Txt_BadDate],
      [HeaderDefault EXCEPT !.seller_vat = Txt_VatBad],
      [HeaderDefault EXCEPT !.buyer_vat = None] }

ToolRequests ==
    RequestsOf(Headers({<<>>, Txt_LongName, Txt_ArOver}), ShortLists, ReferenceChoices,
               {TRUE, FALSE})
        \cup RequestsOf({HeaderDefault}, ItemLists, {NoReferences}, {TRUE, FALSE})
        \cup RequestsOf(FaultyHeaders, FaultyLists, {NoReferences}, {TRUE})

\* Seconds of the day at which the clock is read.
MaxTicks == 1
ClockStart == 10 * 3600 + 30 * 60
Times == ClockStart..(ClockStart + MaxTicks)

BuildInvoiceXml(r, t) ==
    /\ request = NotRun
    /\ request' = r
    /\ xml' = BuildDocument(r, t)
    /\ UNCHANGED <<fields, qr, decoded, vat, vat_errors, response, validation, edits, signing, tables, calls, http>>

GenerateInvoice(r, t1, t2) ==
    /\ request = NotRun
    /\ request' = r
    /\ \E out \in {generate_invoice(r, t1, t2)} :
          /\ response' = out[1]
          /\ xml' = out[2]
    /\ UNCHANGED <<fields, qr, decoded, vat, vat_errors, validation, edits, signing, tables, calls, http>>

ValidateInvoiceXml ==
    /\ xml # NotRun
    /\ ~xml.raised
    /\ validation = NotRun
    /\ validation' = [run |-> TRUE] @@ ValidateDocument(xml)
    /\ UNCHANGED <<fields, qr, decoded, vat, vat_errors, request, xml, response, edits, signing, tables, calls, http>>

\* Documents that reach validate_invoice_xml from outside the builder: a
\* built document with elements removed or rewritten (as the tests do by
\* text replacement), and text that is no XML at all.
Txt_999      == <<57, 57, 57>>                                 \* "999"
Txt_NotANumber == <<97, 98, 99>>                               \* "abc"

\* An amount text moved by a number of cents.
ShiftAmount(text, cents) ==
    IF text = None \/ ~DecParse(text).ok THEN text
    ELSE DecStr(DecAdd(DecParse(text), Dec(cents, 2)))

Edits ==
    { "drop ID", "empty ID", "drop IssueDate", "bad IssueDate",
      "drop InvoiceTypeCode", "type 999", "type 381", "type 383",
      "drop subtype", "subtype simplified", "drop currency",
      "drop seller name", "drop seller VAT", "bad seller VAT",
      "drop buyer name", "drop buyer VAT", "drop lines",
      "drop TaxAmount", "drop PayableAmount",
      "drop TaxInclusiveAmount", "TaxInclusiveAmount + 0.01",
      "TaxInclusiveAmount + 0.02", "TaxInclusiveAmount - 0.02", "TaxInclusiveAmount abc",
      "line amount + 0.01", "line amount + 0.02", "line amount abc", "drop line quantity",
      "drop UUID", "drop street", "drop BillingReference", "drop PaymentMeans" }

EditLine(d, f, value) ==
    IF d.InvoiceLines = <<>> THEN d ELSE [d EXCEPT !.InvoiceLines[1][f] = value]

ApplyEdit(d, e) ==
    CASE e = "drop ID"             -> [d EXCEPT !.ID = None]
      [] e = "empty ID"            -> [d EXCEPT !.ID = <<>>]
      [] e = "drop IssueDate"      -> [d EXCEPT !.IssueDate = None]
      [] e = "bad IssueDate"       -> [d EXCEPT !.IssueDate = Txt_BadDate]
      [] e = "drop InvoiceTypeCode" ->
             [d EXCEPT !.InvoiceTypeCode = None, !.InvoiceTypeCode_name = None]
      [] e = "type 999"            -> [d EXCEPT !.InvoiceTypeCode = Txt_999]
      [] e = "type 381"            -> [d EXCEPT !.InvoiceTypeCode = Txt_381]
      [] e = "type 383"            -> [d EXCEPT !.InvoiceTypeCode = Txt_383]
      [] e = "drop subtype"        -> [d EXCEPT !.InvoiceTypeCode_name = None]
      [] e = "subtype simplified"  -> [d EXCEPT !.InvoiceTypeCode_name = Txt_Simple]
      [] e = "drop currency"       -> [d EXCEPT !.DocumentCurrencyCode = None]
      [] e = "drop seller name"    -> [d EXCEPT !.Supplier.RegistrationName = None]
      [] e = "drop seller VAT"     -> [d EXCEPT !.Supplier.CompanyID = None]
      [] e = "bad seller VAT"      -> [d EXCEPT !.Supplier.CompanyID = Txt_VatBad]
      [] e = "drop buyer name"     -> [d EXCEPT !.Customer.RegistrationName = None]
      [] e = "drop buyer VAT"      -> [d EXCEPT !.Customer.CompanyID = None]
      [] e = "drop lines"          -> [d EXCEPT !.InvoiceLines = <<>>]
      [] e = "drop TaxAmount"      -> [d EXCEPT !.TaxAmount = None]
      [] e = "drop PayableAmount"  -> [d EXCEPT !.PayableAmount = None]
      [] e = "drop TaxInclusiveAmount"   -> [d EXCEPT !.TaxInclusiveAmount = None]
      [] e = "TaxInclusiveAmount + 0.01" ->
             [d EXCEPT !.TaxInclusiveAmount = ShiftAmount(d.TaxInclusiveAmount, 1)]
      [] e = "TaxInclusiveAmount + 0.02" ->
             [d EXCEPT !.TaxInclusiveAmount = ShiftAmount(d.TaxInclusiveAmount, 2)]
      [] e = "TaxInclusiveAmount - 0.02" ->
             [d EXCEPT !.TaxInclusiveAmount = ShiftAmount(d.TaxInclusiveAmount, -2)]
      [] e = "TaxInclusiveAmount abc"    -> [d EXCEPT !.TaxInclusiveAmount = Txt_NotANumber]
      [] e = "line amount + 0.01"  ->
             EditLine(d, "LineExtensionAmount",
                      ShiftAmount(d.InvoiceLines[1].LineExtensionAmount, 1))
      [] e = "line amount + 0.02"  ->
             EditLine(d, "LineExtensionAmount",
                      ShiftAmount(d.InvoiceLines[1].LineExtensionAmount, 2))
      [] e = "line amount abc"     -> EditLine(d, "LineExtensionAmount", Txt_NotANumber)
      [] e = "drop line quantity"  -> EditLine(d, "InvoicedQuantity", None)
      [] e = "drop UUID"           -> [d EXCEPT !.UUID = None]
      [] e = "drop street"         -> [d EXCEPT !.Supplier.StreetName = None]
      [] e = "drop BillingReference" -> [d EXCEPT !.BillingReference = <<>>]
      [] e = "drop PaymentMeans"   -> [d EXCEPT !.PaymentMeans = <<>>]

MaxEdits == 2

TamperXml(e) ==
    /\ xml # NotRun
    /\ ~xml.raised
    /\ xml.parses
    /\ validation = NotRun
    /\ edits < MaxEdits
    /\ ApplyEdit(xml, e) # xml
    /\ xml' = ApplyEdit(xml, e)
    /\ edits' = edits + 1
    /\ UNCHANGED <<fields, qr, decoded, vat, vat_errors, request, response, validation, signing, tables, calls, http>>

\* Text that is no XML: one that encodes as UTF-8 and fails to parse, and one
\* holding a lone surrogate, which does not encode.
NotXml ==
    { [run |-> TRUE, raised |-> FALSE, parses |-> FALSE, encodes |-> TRUE],
      [run |-> TRUE, raised |-> FALSE, parses |-> FALSE, encodes |-> FALSE] }

ReceiveXml(d) ==
    /\ xml = NotRun
    /\ request = NotRun
    /\ xml' = d
    /\ UNCHANGED <<fields, qr, decoded, vat, vat_errors, request, response, validation, edits, signing, tables, calls, http>>

\* The documents that are then changed: an invoice, a simplified invoice and
\* a credit note with its references, with one line and with two.
BaseRequests ==
    RequestsOf({HeaderDefault},
               { <<Item(<<65>>, <<49>>, <<49, 48, 48, 48, 46, 48>>, None, None)>>,
                 <<Item(<<67>>, <<53>>, <<48, 46, 49, 50, 53>>, Txt_015, Txt_S),
                   Item(<<69>>, <<49>>, <<48, 46, 49, 48>>, Txt_015, Txt_S)>> },
               {NoReferences, References(Txt_RefId, Txt_RefDate, Txt_Reason)},
               {TRUE})

NextVal ==
    \/ request = NotRun /\ xml = NotRun
          /\ \E r \in BaseRequests : BuildInvoiceXml(r, ClockStart)
    \/ xml = NotRun /\ \E d \in NotXml : ReceiveXml(d)
    \/ \E e \in Edits : TamperXml(e)
    \/ ValidateInvoiceXml

SpecVal == Init /\ [][NextVal]_vars

Next ==
    \/ request = NotRun /\ \E r \in BuildRequests, t \in Times : BuildInvoiceXml(r, t)
    \/ ValidateInvoiceXml

Spec == Init /\ [][Next]_vars

NextGen ==
    \/ /\ request = NotRun
       /\ \E r \in ToolRequests, t1 \in Times, t2 \in Times :
             t1 <= t2 /\ GenerateInvoice(r, t1, t2)
    \/ ValidateInvoiceXml

SpecGen == Init /\ [][NextGen]_vars

NextTLV ==
    \/ qr = NotRun /\ \E f \in FieldSets : EncodeTlv(f)
    \/ qr = NotRun /\ \E p \in Payloads : ReceiveQr(p)
    \/ DecodeTlv

SpecTLV == Init /\ [][NextTLV]_vars

----------------------------------------------------------------------------
(* Calls of the sign_invoice tool                                          *)

\* PEM texts handed to the tool: one that loads and one that does not.
KeyPems == {[ok |-> TRUE, id |-> 1], [ok |-> FALSE, id |-> 0]}
CertPems == {[ok |-> TRUE, id |-> 1], [ok |-> FALSE, id |-> 0]}

\* Nonces the signer may draw.
MaxNonce == 1
Nonces == 1..MaxNonce

\* Seconds at which sign_invoice reads the clock.
SignTimes == {ClockStart, ClockStart + 1}

\* Signings of one invoice in a row.
MaxSignings == 2

\* QR texts embedded by a direct build: none, a payload that already carries
\* tags 6 to 8, a payload with tag 1 only, a payload cut short, and a text
\* that is no base64.
QrTexts ==
    { None,
      encode_tlv([seller_name |-> Txt_Arabic, vat_number |-> Txt_VatOk, timestamp |-> Txt_Stamp,
                  total_amount |-> Txt_Total, vat_amount |-> Txt_Vat, invoice_hash |-> <<104>>,
                  ecdsa_signature |-> <<115>>, ecdsa_public_key |-> <<107>>]).value,
      b64encode(<<1, 1, 65>>),
      b64encode(<<1, 5, 65>>),
      <<65>> }

SignItems == <<Item(<<65>>, <<49>>, <<49, 48, 48, 48, 46, 48>>, None, None)>>

\* Requests whose documents are signed: through the tool, which embeds the QR
\* it encodes, and through the builder with a QR text of the caller.
SignToolRequests ==
    {r \in RequestsOf({HeaderDefault, [HeaderDefault EXCEPT !.seller_name = Txt_Arabic]},
                      {SignItems}, {NoReferences}, {TRUE}) :
        r.invoice_type \in {"standard", "credit_note"}}

SignBuildRequests ==
    {[r EXCEPT !.qr_data = q] :
        r \in {x \in RequestsOf({HeaderDefault}, {SignItems}, {NoReferences}, {TRUE}) :
                  x.invoice_type = "simplified"},
        q \in QrTexts}

\* A sign_invoice call on the document at hand: the one built or received,
\* or the signed document the previous call returned.  The clock does not go
\* back between two calls.
SignInvoice(cert, pem, t, k1, k2) ==
    /\ xml # NotRun
    /\ "parses" \in DOMAIN xml
    /\ IF signing = NotRun
       THEN signing' = [run |-> TRUE, round |-> 1, t |-> t, input |-> xml]
                          @@ sign_invoice(xml, cert, pem, t, k1, k2)
       ELSE /\ signing.kind = "signed"
            /\ signing.round < MaxSignings
            /\ t >= signing.t
            /\ signing' = [run |-> TRUE, round |-> signing.round + 1, t |-> t,
                           input |-> signing.signed_xml]
                             @@ sign_invoice(signing.signed_xml, cert, pem, t, k1, k2)
    /\ UNCHANGED <<fields, qr, decoded, vat, vat_errors, request, xml, response, validation,
                   edits, tables, calls, http>>

NextSign ==
    \/ /\ request = NotRun /\ xml = NotRun
       /\ \E r \in SignToolRequests : GenerateInvoice(r, ClockStart, ClockStart)
    \/ /\ request = NotRun /\ xml = NotRun
       /\ \E r \in SignBuildRequests : BuildInvoiceXml(r, ClockStart)
    \/ request = NotRun /\ xml = NotRun /\ \E d \in NotXml : ReceiveXml(d)
    \/ \E cert \in CertPems, pem \in KeyPems, t \in SignTimes, k1 \in Nonces, k2 \in Nonces :
          SignInvoice(cert, pem, t, k1, k2)

SpecSign == Init /\ [][NextSign]_vars

----------------------------------------------------------------------------
(* Concurrent invocations of the core operations                           *)

\* What the threads call: an encoding that succeeds and one whose first value
\* is too long, a decoding that succeeds and one cut short, the build of a
\* credit note and of an invoice of an unknown type, and the validation of a
\* built document and of a text that is no XML.
CoreFields ==
    [ seller_name |-> Txt_Arabic, vat_number |-> Txt_VatOk, timestamp |-> Txt_Stamp,
      total_amount |-> Txt_Total, vat_amount |-> Txt_Vat, invoice_hash |-> <<104>>,
      ecdsa_signature |-> None, ecdsa_public_key |-> None ]

CoreRequests ==
    {r \in RequestsOf({HeaderDefault}, {SignItems}, {NoReferences}, {TRUE}) :
        r.invoice_type \in {"credit_note", "proforma"}}

Invocations ==
    {[op |-> "encode_tlv", arg |-> f, t |-> ClockStart] :
        f \in {CoreFields, [CoreFields EXCEPT !.seller_name = Txt_Over]}}
    \cup {[op |-> "decode_tlv", arg |-> q, t |-> ClockStart] :
             q \in {encode_tlv(CoreFields).value, b64encode(<<1, 5, 65>>)}}
    \cup {[op |-> "build_invoice_xml", arg |-> r, t |-> ClockStart] : r \in CoreRequests}
    \cup {[op |-> "validate_invoice_xml", arg |-> d, t |-> ClockStart] :
             d \in {BuildDocument(r, ClockStart) : r \in CoreRequests}
                      \cup {x \in NotXml : x.encodes}}

\* Thread th enters an operation.
Enter(th, inv) ==
    /\ calls[th].pc = "idle"
    /\ calls' = [calls EXCEPT ![th] = inv @@ [pc |-> "run", acc |-> Entered(inv.op),
                                              overlapped |-> FALSE]]
    /\ UNCHANGED <<fields, qr, decoded, vat, vat_errors, request, xml, response, validation,
                   edits, signing, tables, http>>

\* Thread th runs its invocation one step further; overlapped records that
\* another invocation was under way at one of its steps.
StepCall(th) ==
    /\ calls[th].pc = "run"
    /\ LET c == [calls[th] EXCEPT !.overlapped =
                    @ \/ \E o \in Threads \ {th} : calls[o].pc = "run"]
       IN  /\ calls' = [calls EXCEPT ![th] = StepOf(c, tables)]
           /\ tables' = TablesAfter(c, tables)
    /\ UNCHANGED <<fields, qr, decoded, vat, vat_errors, request, xml, response, validation,
                   edits, signing, http>>

NextCore ==
    \/ \E th \in Threads, inv \in Invocations : Enter(th, inv)
    \/ \E th \in Threads : StepCall(th)

SpecCore == Init /\ [][NextCore]_vars

----------------------------------------------------------------------------
(* Calls of the submit_invoice and check_compliance tools                  *)

Environments == {"sandbox", "production", "", "Sandbox", "sandbx", "simulation"}

Modes == {"clearance", "reporting", "", "Clearance", "clear"}

Txt_Cert   == <<77, 73, 73, 67>>                               \* "MIIC"
Txt_Secret == <<115, 51, 99>>                                  \* "s3c"
Txt_SentUuid == <<117, 45, 49>>                                \* "u-1"
Txt_Xml    == <<60, 73, 110, 118, 111, 105, 99, 101, 47, 62>>  \* "<Invoice/>"

ApiArgs ==
    [ signed_invoice_xml : {Txt_Xml},
      invoice_hash       : {b64encode(Repeat(7, 3))},
      invoice_uuid       : {Txt_SentUuid},
      certificate        : {Txt_Cert, <<>>},
      secret             : {Txt_Secret},
      mode               : Modes,
      environment        : Environments ]

\* check_compliance takes no mode.
ComplianceArgs ==
    [ signed_invoice_xml : {Txt_Xml},
      invoice_hash       : {b64encode(Repeat(7, 3))},
      invoice_uuid       : {Txt_SentUuid},
      certificate        : {Txt_Cert, <<>>},
      secret             : {Txt_Secret},
      environment        : Environments ]

\* What comes back: an answer with a status, or an exception (no connection,
\* an HTTP error status, a body that does not validate).
Answers ==
    {[raised |-> FALSE, status |-> st] : st \in {"REPORTED", "CLEARED", "REJECTED"}}
        \cup {[raised |-> TRUE, status |-> ""]}

SubmitInvoice(a, installed) ==
    /\ http = NotRun
    /\ http' = [run |-> TRUE] @@ submit_invoice(a, installed)
    /\ UNCHANGED <<fields, qr, decoded, vat, vat_errors, request, xml, response, validation,
                   edits, signing, tables, calls>>

CheckCompliance(a, installed) ==
    /\ http = NotRun
    /\ http' = [run |-> TRUE] @@ check_compliance(a, installed)
    /\ UNCHANGED <<fields, qr, decoded, vat, vat_errors, request, xml, response, validation,
                   edits, signing, tables, calls>>

Answer(answer) ==
    /\ http # NotRun
    /\ http.pc = "awaiting"
    /\ http' = AfterAwait(http, answer)
    /\ UNCHANGED <<fields, qr, decoded, vat, vat_errors, request, xml, response, validation,
                   edits, signing, tables, calls>>

NextApi ==
    \/ \E a \in ApiArgs, installed \in BOOLEAN : SubmitInvoice(a, installed)
    \/ \E a \in ComplianceArgs, installed \in BOOLEAN : CheckCompliance(a, installed)
    \/ \E answer \in Answers : Answer(answer)

SpecApi == Init /\ [][NextApi]_vars

----------------------------------------------------------------------------
(* Properties of the TLV codec (SpecTLV)                                   *)

\* Number of bytes of the UTF-8 form of a text, counted per character.
ByteLen(s) ==
    Len(s) + Cardinality({i \in 1..Len(s) : s[i] >= 128})
           + Cardinality({i \in 1..Len(s) : s[i] >= 2048})
           + Cardinality({i \in 1..Len(s) : s[i] >= 65536})

\* Tags a call supplies and the value it gives each.
SuppliedTags(f) ==
    {1, 2, 3, 4, 5} \cup (IF f.invoice_hash # None THEN {6} ELSE {})
                    \cup (IF f.ecdsa_signature # None THEN {7} ELSE {})
                    \cup (IF f.ecdsa_public_key # None THEN {8} ELSE {})

SuppliedValue(f, t) ==
    CASE t = 1 -> f.seller_name
      [] t = 2 -> f.vat_number
      [] t = 3 -> f.timestamp
      [] t = 4 -> f.total_amount
      [] t = 5 -> f.vat_amount
      [] t = 6 -> f.invoice_hash
      [] t = 7 -> f.ecdsa_signature
      [] t = 8 -> f.ecdsa_public_key

AllFit(f) == \A t \in SuppliedTags(f) : ByteLen(SuppliedValue(f, t)) <= MaxValueLen

\* Offset (0-based) of the segment of tag t when segments are laid out in
\* ascending tag order with no gaps; SegmentOffset(f, MaxTag + 1) is the total.
RECURSIVE SegmentOffset(_, _)
SegmentOffset(f, t) ==
    IF t <= 1 THEN 0
    ELSE SegmentOffset(f, t - 1)
         + (IF t - 1 \in SuppliedTags(f) THEN 2 + ByteLen(SuppliedValue(f, t - 1)) ELSE 0)

\* C2: TLV round trip.  For every field set whose supplied values each take at
\* most 255 UTF-8 bytes, encode_tlv succeeds and decode_tlv of its result is
\* exactly the mapping tag -> supplied value: tags 1..5 and each supplied tag
\* of 6, 7, 8, nothing missing, extra or altered, multi-byte text included.
C2_RoundTrip ==
    (fields # NotRun /\ AllFit(fields)) =>
        /\ qr.ok
        /\ decoded # NotRun =>
              /\ decoded.ok
              /\ DOMAIN decoded.result = SuppliedTags(fields)
              /\ \A t \in SuppliedTags(fields) :
                    decoded.result[t] = SuppliedValue(fields, t)

C2_Witness ==
    /\ fields # NotRun
    /\ decoded # NotRun
    /\ decoded.ok
    /\ fields.seller_name = Txt_Arabic
    /\ SuppliedTags(fields) = 1..8

\* C7: TLV length boundary.  encode_tlv succeeds exactly when every supplied
\* value takes at most 255 bytes, counted in encoded bytes and not in
\* characters; one over-long field fails the whole call and no payload is
\* returned; on success the first segment is (1, byte length, value), so a
\* 255-byte value carries length byte 255 and an empty value is the 2-byte
\* segment (1, 0) directly followed by the segment of tag 2.
C7_LengthBoundary ==
    fields # NotRun =>
        /\ qr.ok <=> AllFit(fields)
        /\ ~qr.ok => qr.value = None
        /\ qr.ok =>
              LET data == b64decode(qr.value)
                  n    == ByteLen(fields.seller_name)
              IN  /\ data[1] = 1
                  /\ data[2] = n
                  /\ n <= MaxValueLen
                  /\ data[2 + n + 1] = 2

C7_Witness ==
    /\ fields # NotRun
    /\ qr.ok
    /\ ByteLen(fields.seller_name) = MaxValueLen
    /\ Len(fields.seller_name) < MaxValueLen

\* C8: TLV byte layout.  The bytes under the base64 text (standard alphabet,
\* one unbroken line, padded to a multiple of 4) are the segments
\* [tag][length][value] of tags 1..5 and of the supplied tags among 6, 7, 8 in
\* ascending order, with no other byte: the total is the sum of 2 + length.
C8_Layout ==
    (fields # NotRun /\ qr.ok) =>
        LET data == b64decode(qr.value)
        IN  /\ \A i \in 1..Len(qr.value) : B64Val(qr.value[i]) >= 0 \/ qr.value[i] = 61
            /\ Len(qr.value) = 4 * ((Len(data) + 2) \div 3)
            /\ Len(data) = SegmentOffset(fields, MaxTag + 1)
            /\ \A t \in SuppliedTags(fields) :
                  LET off == SegmentOffset(fields, t)
                      v   == SuppliedValue(fields, t)
                  IN  /\ data[off + 1] = t
                      /\ data[off + 2] = ByteLen(v)
                      /\ SubSeq(data, off + 3, off + 2 + ByteLen(v)) = Utf8Encode(v)

C8_Witness ==
    /\ fields # NotRun
    /\ qr.ok
    /\ fields.invoice_hash = <<>>
    /\ fields.ecdsa_signature = None
    /\ fields.ecdsa_public_key # None

\* Offsets (0-based) where a left-to-right scan expects a tag: 0 and the end
\* of every segment that is complete.
RECURSIVE ScanOffsets(_, _)
ScanOffsets(data, i) ==
    IF i + 2 <= Len(data) /\ i + 2 + data[i + 2] <= Len(data)
    THEN {i} \cup ScanOffsets(data, i + 2 + data[i + 2])
    ELSE {i}

ScanStop(data) == CHOOSE s \in ScanOffsets(data, 0) : \A o \in ScanOffsets(data, 0) : o <= s

\* Complete segments, by offset, and the text each carries (None if not UTF-8).
CompleteSegments(data) == ScanOffsets(data, 0) \ {ScanStop(data)}
SegmentText(data, o) == Utf8Decode(SubSeq(data, o + 3, o + 2 + data[o + 2]))

\* The mapping read off the complete segments: for each tag, its last segment.
ScannedMapping(data) ==
    LET segs == CompleteSegments(data)
        last(t) == CHOOSE o \in segs :
                      data[o + 1] = t /\ \A p \in segs : data[p + 1] = t => p <= o
    IN  [t \in {data[o + 1] : o \in segs} |-> SegmentText(data, last(t))]

\* C9 as stated: truncation error exactly when one byte remains where a tag is
\* expected, length-mismatch error exactly when the declared length exceeds
\* what follows the 2-byte header, and otherwise every byte is consumed into
\* the mapping; no partial mapping on failure.
C9_Original ==
    decoded # NotRun =>
        LET data == b64decode(qr.value)
            s    == ScanStop(data)
            r    == Len(data) - s
        IN  /\ (~decoded.ok /\ decoded.error = "Truncated") <=> r = 1
            /\ (~decoded.ok /\ decoded.error = "claims length") <=> r >= 2
            /\ r = 0 => decoded.ok /\ decoded.result = ScannedMapping(data)
            /\ ~decoded.ok => "result" \notin DOMAIN decoded

\* C9 (amended): the scan fails with a decode error at the first complete
\* segment whose value is not valid UTF-8; when there is none it fails with
\* the truncation error exactly when one byte remains where a tag is expected,
\* with the length-mismatch error exactly when the declared length exceeds what
\* follows the 2-byte header, and otherwise consumes every byte into the
\* mapping, in order; no partial mapping on any failure.
C9_DecodeErrors ==
    decoded # NotRun =>
        LET data == b64decode(qr.value)
            s    == ScanStop(data)
            r    == Len(data) - s
            bad  == \E o \in CompleteSegments(data) : SegmentText(data, o) = None
        IN  /\ (~decoded.ok /\ decoded.error = "UnicodeDecodeError") <=> bad
            /\ (~decoded.ok /\ decoded.error = "Truncated") <=> (~bad /\ r = 1)
            /\ (~decoded.ok /\ decoded.error = "claims length") <=> (~bad /\ r >= 2)
            /\ decoded.ok <=> (~bad /\ r = 0)
            /\ decoded.ok => decoded.result = ScannedMapping(data)
            /\ ~decoded.ok => "result" \notin DOMAIN decoded

C9_Witness ==
    /\ decoded # NotRun
    /\ ~decoded.ok
    /\ decoded.error = "claims length"
    /\ CompleteSegments(b64decode(qr.value)) # {}

----------------------------------------------------------------------------
(* Properties of the VAT-number rule (SpecVAT)                             *)

\* C10: validate_vat_number returns no violation if and only if the string is
\* present, exactly 15 characters long, made of ASCII digits 0-9 only, and
\* starts and ends with '3'.
C10_VatValidity ==
    vat_errors # NotRun =>
        (vat_errors.errors = <<>> <=>
            /\ vat # None
            /\ Len(vat) = 15
            /\ \A i \in 1..Len(vat) : vat[i] >= 48 /\ vat[i] <= 57
            /\ vat[1] = 51
            /\ vat[Len(vat)] = 51)

\* The messages of a list, as a set.
Messages(errs) == {errs[i] : i \in DOMAIN errs}

IsAsciiDigits(s) == \A i \in 1..Len(s) : s[i] >= 48 /\ s[i] <= 57

\* C11: for every non-empty input, validate_vat_number reports each violated
\* clause of the rule (length other than 15, a character that is not an ASCII
\* digit, first character not '3', last character not '3') in the one list it
\* returns, and no message appears twice.
C11_VatCompleteness ==
    (vat_errors # NotRun /\ vat # None /\ vat # <<>>) =>
        /\ Len(vat) # 15 =>
              "VAT number must be 15 digits" \in Messages(vat_errors.errors)
        /\ ~IsAsciiDigits(vat) =>
              "VAT number must contain only digits" \in Messages(vat_errors.errors)
        /\ vat[1] # 51 =>
              "VAT number must start with 3" \in Messages(vat_errors.errors)
        /\ vat[Len(vat)] # 51 =>
              "VAT number must end with 3" \in Messages(vat_errors.errors)
        /\ Cardinality(Messages(vat_errors.errors)) = Len(vat_errors.errors)

----------------------------------------------------------------------------
(* Properties of the builder and the validator (Spec), of the tool (SpecGen) *)

Built == xml # NotRun /\ ~xml.raised

\* An amount text read as a whole number of cents; TwoPlaces says it has
\* exactly two decimals.
Cents(text) == DecParse(text).m
TwoPlaces(text) == DecParse(text).ok /\ DecParse(text).e = 2

\* The 15-digit rule as the specification words it.
FifteenDigitRule(v) ==
    /\ v # None
    /\ Len(v) = 15
    /\ \A i \in 1..Len(v) : v[i] >= 48 /\ v[i] <= 57
    /\ v[1] = 51
    /\ v[Len(v)] = 51

IsoDate(s) ==
    /\ Len(s) = 10
    /\ \A i \in 1..10 : IF i \in {5, 8} THEN s[i] = 45 ELSE s[i] >= 48 /\ s[i] <= 57

ValidLineItem(it) ==
    /\ it.name # None
    /\ DecParse(it.quantity).ok /\ DecParse(it.quantity).m > 0
    /\ DecParse(it.unit_price).ok /\ DecParse(it.unit_price).m >= 0
    /\ it.vat_rate = None \/ DecParse(it.vat_rate).ok

\* C1: closed loop build -> validate.  For every valid input (well-formed
\* header: invoice number, ISO issue date, currency and at least one line;
\* each line numeric with quantity > 0 and unit_price >= 0, any vat_rate;
\* seller VAT satisfying the 15-digit rule; non-empty seller and buyer names;
\* buyer VAT present whenever the emitted sub-type marker is 0100000; a
\* credit or debit note naming the original invoice) the
\* document build_invoice_xml returns is accepted by validate_invoice_xml with
\* is_valid = true and an empty errors list.
C1_BuildThenValidate ==
    ( /\ Built
      /\ validation # NotRun
      /\ request.invoice_number # <<>>
      /\ IsoDate(request.issue_date)
      /\ request.currency # <<>>
      /\ request.line_items # <<>>
      /\ \A i \in 1..Len(request.line_items) : ValidLineItem(request.line_items[i])
      /\ FifteenDigitRule(request.seller_vat)
      /\ request.seller_name # <<>>
      /\ request.buyer_name # <<>>
      /\ xml.InvoiceTypeCode_name = Txt_Standard => request.buyer_vat \notin {None, <<>>}
      /\ xml.InvoiceTypeCode \in {Txt_381, Txt_383} => xml.BillingReference # <<>> )
    => (validation.is_valid /\ validation.errors = <<>>)

\* C3: totals invariant.  In every built document all totals are amounts with
\* two decimals, TaxInclusiveAmount = TaxExclusiveAmount + aggregate TaxAmount
\* to the cent, PayableAmount = TaxInclusiveAmount, and the document-level
\* LineExtensionAmount = TaxExclusiveAmount = the sum of the lines'
\* LineExtensionAmounts.
C3_Totals ==
    Built =>
        /\ TwoPlaces(xml.TaxInclusiveAmount) /\ TwoPlaces(xml.TaxExclusiveAmount)
        /\ TwoPlaces(xml.TaxAmount)
        /\ \A i \in 1..Len(xml.InvoiceLines) : TwoPlaces(xml.InvoiceLines[i].LineExtensionAmount)
        /\ Cents(xml.TaxInclusiveAmount) = Cents(xml.TaxExclusiveAmount) + Cents(xml.TaxAmount)
        /\ xml.PayableAmount = xml.TaxInclusiveAmount
        /\ xml.LineExtensionAmount = xml.TaxExclusiveAmount
        /\ Cents(xml.TaxExclusiveAmount) =
              SumSeq([i \in 1..Len(xml.InvoiceLines) |->
                         Cents(xml.InvoiceLines[i].LineExtensionAmount)])

C3_Witness ==
    /\ Built
    /\ Len(xml.InvoiceLines) = 2
    /\ Cents(xml.TaxAmount) > 0
    /\ xml.InvoiceLines[1].LineExtensionAmount # xml.InvoiceLines[2].LineExtensionAmount

\* y is x rounded to two decimals, ties away from zero: y has two decimals and
\* lies within half a cent of x, on the far side of zero when exactly half.
IsHalfUp(x, y) ==
    /\ y.e = 2
    /\ IF x.e <= 2 THEN y.m = x.m * Pow10(2 - x.e)
       ELSE LET unit == Pow10(x.e - 2)
                up   == y.m * unit - x.m      \* how far y lies above x
            IN  IF x.m >= 0 THEN 2 * up <= unit /\ 2 * up > -unit
                ELSE 2 * up >= -unit /\ 2 * up < unit

RequestRate(it) == DecParse(IF it.vat_rate = None THEN <<48, 46, 49, 53>> ELSE it.vat_rate)

\* C4: two-stage half-up rounding.  In every built document each line's amount
\* is quantity x unit_price rounded half up to 2 decimals and its VAT is that
\* rounded amount x vat_rate rounded half up to 2 decimals; the aggregate VAT
\* and the tax-exclusive total are the sums of these rounded line values.
C4_Rounding ==
    Built =>
        /\ Len(xml.InvoiceLines) = Len(request.line_items)
        /\ \A i \in 1..Len(xml.InvoiceLines) :
              LET it     == request.line_items[i]
                  line   == xml.InvoiceLines[i]
                  amount == DecParse(line.LineExtensionAmount)
              IN  /\ IsHalfUp(DecMul(DecParse(it.quantity), DecParse(it.unit_price)), amount)
                  /\ IsHalfUp(DecMul(amount, RequestRate(it)), DecParse(line.TaxAmount))
        /\ Cents(xml.TaxAmount) =
              SumSeq([i \in 1..Len(xml.InvoiceLines) |-> Cents(xml.InvoiceLines[i].TaxAmount)])
        /\ Cents(xml.TaxExclusiveAmount) =
              SumSeq([i \in 1..Len(xml.InvoiceLines) |->
                         Cents(xml.InvoiceLines[i].LineExtensionAmount)])

\* A document with a line whose VAT is an exact tie (0.015 -> 0.02) and whose
\* aggregate VAT differs from one rounding of the unrounded sum.
C4_Witness ==
    /\ Built
    /\ \E i \in 1..Len(xml.InvoiceLines) :
          LET x == DecMul(DecParse(xml.InvoiceLines[i].LineExtensionAmount),
                          RequestRate(request.line_items[i]))
          IN  x.e = 4 /\ x.m % 100 = 50 /\ Cents(xml.InvoiceLines[i].TaxAmount) * 100 > x.m
    /\ LET exact == DecSum([i \in 1..Len(request.line_items) |->
                       DecMul(DecMul(DecParse(request.line_items[i].quantity),
                                     DecParse(request.line_items[i].unit_price)),
                              RequestRate(request.line_items[i]))])
       IN  ~IsHalfUp(exact, DecParse(xml.TaxAmount))

\* Lines i and j of the request carry the same (vat_rate, vat_category) pair.
SamePair(i, j) ==
    LET a == request.line_items[i]
        b == request.line_items[j]
        cat(it) == IF it.vat_category = None THEN <<83>> ELSE it.vat_category
    IN  /\ RequestRate(a).m * Pow10(RequestRate(b).e) = RequestRate(b).m * Pow10(RequestRate(a).e)
        /\ cat(a) = cat(b)

\* C5: tax grouping.  A built document has exactly one TaxSubtotal per distinct
\* (vat_rate, vat_category) pair among its lines; the subtotal of a pair has
\* TaxableAmount and TaxAmount equal to the sums of the line amounts and line
\* VATs over exactly the lines of that pair; the subtotals' TaxAmounts add up
\* to the aggregate TaxAmount and their TaxableAmounts to TaxExclusiveAmount.
C5_TaxGrouping ==
    Built =>
        LET n      == Len(xml.InvoiceLines)
            firsts == {i \in 1..n : \A j \in 1..(i - 1) : ~SamePair(j, i)}
            subs   == xml.TaxSubtotals
            class(i) == SelectSeq([j \in 1..n |-> j], LAMBDA j : SamePair(i, j))
            matches(g, i) ==
                /\ subs[g].ID = xml.InvoiceLines[i].CategoryID
                /\ Cents(subs[g].Percent) * Pow10(RequestRate(request.line_items[i]).e)
                      = RequestRate(request.line_items[i]).m * 100
                /\ Cents(subs[g].TaxableAmount) =
                      SumSeq([k \in 1..Len(class(i)) |->
                                 Cents(xml.InvoiceLines[class(i)[k]].LineExtensionAmount)])
                /\ Cents(subs[g].TaxAmount) =
                      SumSeq([k \in 1..Len(class(i)) |->
                                 Cents(xml.InvoiceLines[class(i)[k]].TaxAmount)])
        IN  /\ Len(subs) = Cardinality(firsts)
            /\ \A i \in firsts : Cardinality({g \in 1..Len(subs) : matches(g, i)}) = 1
            /\ \A g \in 1..Len(subs) : TwoPlaces(subs[g].TaxableAmount) /\ TwoPlaces(subs[g].TaxAmount)
            /\ SumSeq([g \in 1..Len(subs) |-> Cents(subs[g].TaxAmount)]) = Cents(xml.TaxAmount)
            /\ SumSeq([g \in 1..Len(subs) |-> Cents(subs[g].TaxableAmount)])
                  = Cents(xml.TaxExclusiveAmount)

\* Two lines at the same rate in different categories: two subtotals.
C5_Witness ==
    /\ Built
    /\ Len(xml.InvoiceLines) = 2
    /\ Len(xml.TaxSubtotals) = 2
    /\ xml.TaxSubtotals[1].Percent = xml.TaxSubtotals[2].Percent
    /\ xml.TaxSubtotals[1].ID # xml.TaxSubtotals[2].ID

\* C6: the QR reflects the final rounded totals.  For every request the tool
\* accepts, the QR payload embedded in the returned document decodes with
\* total_amount (tag 4) equal to the document's TaxInclusiveAmount and
\* vat_amount (tag 5) equal to its aggregate TaxAmount.
C6_QrTotals ==
    (response # NotRun /\ response.kind = "xml") =>
        /\ Built
        /\ xml.QR # None
        /\ LET payload == decode_tlv(xml.QR)
           IN  /\ payload.ok
               /\ payload.result[4] = xml.TaxInclusiveAmount
               /\ payload.result[5] = xml.TaxAmount

\* A line the specification calls invalid: quantity or unit_price not numeric,
\* quantity <= 0, or unit_price < 0.
InvalidLine(it) ==
    \/ ~DecParse(it.quantity).ok
    \/ ~DecParse(it.unit_price).ok
    \/ DecParse(it.quantity).m <= 0
    \/ DecParse(it.unit_price).m < 0

\* C12: no document is produced from an invalid line item.  Whenever a direct
\* call of build_invoice_xml is given a line whose quantity or unit_price is
\* not numeric, whose quantity is <= 0 or whose unit_price is < 0, the call is
\* rejected and returns no document.
C12_NoXmlFromInvalidLine ==
    ( /\ request # NotRun
      /\ xml # NotRun
      /\ \E i \in 1..Len(request.line_items) : InvalidLine(request.line_items[i]) )
    => xml.raised

----------------------------------------------------------------------------
(* Properties of the validator on documents from outside (SpecVal)         *)

Validated == validation # NotRun /\ "is_valid" \in DOMAIN validation

\* C13: for every document that parses, is_valid is true if and only if the
\* errors list is empty, whatever the warnings list holds.
C13_ValidIffNoErrors ==
    (Validated /\ xml.parses) => (validation.is_valid <=> validation.errors = <<>>)

\* A changed document that is valid while carrying a warning.
C13_Witness ==
    /\ Validated /\ xml.parses /\ edits > 0
    /\ validation.is_valid
    /\ validation.warnings # <<>>

\* An element is absent, or present with no text.
Missing(text) == text \in {None, <<>>}

\* A decimal rounded half up to whole cents, as an integer.
HalfUpCents(m, e) ==
    IF e <= 2 THEN m * Pow10(2 - e)
    ELSE LET unit  == Pow10(e - 2)
             cents == (2 * Abs(m) + unit) \div (2 * unit)
         IN  IF m >= 0 THEN cents ELSE -cents

\* A number of cents and a declared amount are more than 0.01 apart.
ApartByMoreThanACent(cents, declared) ==
    LET e == IF declared.e > 2 THEN declared.e ELSE 2
    IN  Abs(cents * Pow10(e - 2) - declared.m * Pow10(e - declared.e)) > Pow10(e - 2)

\* A line whose quantity, price and amount are numbers and whose amount is
\* more than 0.01 away from round2(quantity x price).
LineMismatch(line) ==
    LET qty   == DecParse(line.InvoicedQuantity)
        price == DecParse(line.PriceAmount)
        ext   == DecParse(line.LineExtensionAmount)
    IN  /\ qty.ok /\ price.ok /\ ext.ok
        /\ ApartByMoreThanACent(HalfUpCents(qty.m * price.m, qty.e + price.e), ext)

\* The declared totals are numbers and the tax-inclusive amount is more than
\* 0.01 away from round2(tax_exclusive + tax).
TotalsMismatch(d) ==
    LET excl == DecParse(d.TaxExclusiveAmount)
        tax  == DecParse(d.TaxAmount)
        incl == DecParse(d.TaxInclusiveAmount)
        e    == IF excl.e > tax.e THEN excl.e ELSE tax.e
    IN  /\ excl.ok /\ tax.ok /\ incl.ok
        /\ ApartByMoreThanACent(
               HalfUpCents(excl.m * Pow10(e - excl.e) + tax.m * Pow10(e - tax.e), e), incl)

Br11Message(idx) == "BR-11: Line " \o ToString(idx) \o " total mismatch"
Br14Message == "BR-14: Tax inclusive amount mismatch"

\* The messages of each rule, in the order of the rules.
RuleMessages(d) ==
    << {"BR-01: Invoice ID (cbc:ID) is mandatory"},
       {"BR-02: Issue Date (cbc:IssueDate) is mandatory",
        "BR-02: Issue Date must be YYYY-MM-DD format"},
       {"BR-03: Invoice Type Code is mandatory", "BR-03: Invalid Invoice Type Code"},
       {"BR-04: Document Currency Code is mandatory"},
       {"BR-05: Seller name is mandatory"},
       {"BR-06: Seller VAT number is mandatory",
        "BR-06: Seller VAT - VAT number is required",
        "BR-06: Seller VAT - VAT number must be 15 digits",
        "BR-06: Seller VAT - VAT number must contain only digits",
        "BR-06: Seller VAT - VAT number must start with 3",
        "BR-06: Seller VAT - VAT number must end with 3"},
       {"BR-07: Buyer name is mandatory"},
       {"BR-08: Buyer VAT number is mandatory for standard (B2B) invoices"},
       {"BR-10: Invoice must have at least one line item"},
       {Br11Message(i) : i \in DOMAIN d.InvoiceLines},
       {"BR-12: Tax total is mandatory"},
       {"BR-13: Payable amount is mandatory"},
       {Br14Message},
       {"BR-15: Billing reference is mandatory for credit and debit notes"} >>

RuleOf(msg, d) == CHOOSE k \in DOMAIN RuleMessages(d) : msg \in RuleMessages(d)[k]

\* Rule k of the specification's table (BR-01 .. BR-14) is violated by d.
Violated(k, d) ==
    CASE k = 1  -> Missing(d.ID)
      [] k = 2  -> Missing(d.IssueDate) \/ ~IsoDate(d.IssueDate)
      [] k = 3  -> d.InvoiceTypeCode \notin {Txt_388, Txt_381, Txt_383}
      [] k = 4  -> Missing(d.DocumentCurrencyCode)
      [] k = 5  -> Missing(d.Supplier.RegistrationName)
      [] k = 6  -> ~FifteenDigitRule(d.Supplier.CompanyID)
      [] k = 7  -> Missing(d.Customer.RegistrationName)
      [] k = 8  -> /\ ~Missing(d.InvoiceTypeCode_name)
                   /\ startswith01(d.InvoiceTypeCode_name)
                   /\ Missing(d.Customer.CompanyID)
      [] k = 9  -> d.InvoiceLines = <<>>
      [] k = 10 -> \E i \in DOMAIN d.InvoiceLines : LineMismatch(d.InvoiceLines[i])
      [] k = 11 -> Missing(d.TaxAmount)
      [] k = 12 -> Missing(d.PayableAmount)
      [] k = 13 -> TotalsMismatch(d)

\* C14: no rule short-circuits another.  For every document that parses, the
\* errors list holds an entry for each violated rule of BR-01 .. BR-14, and
\* its entries follow the order of the rules.
C14_EveryViolatedRuleReported ==
    (Validated /\ xml.parses) =>
        LET errs == validation.errors
        IN  /\ \A i, j \in DOMAIN errs : i < j => RuleOf(errs[i], xml) <= RuleOf(errs[j], xml)
            /\ \A k \in 1..13 :
                  Violated(k, xml) => \E i \in DOMAIN errs : RuleOf(errs[i], xml) = k

\* C15: on a text that does not parse as XML, validate_invoice_xml returns
\* (it does not raise) a result with is_valid false, the one structural error
\* and no warning.
C15_NotXml ==
    (validation # NotRun /\ ~xml.parses) =>
        /\ Validated
        /\ ~validation.is_valid
        /\ validation.errors = <<"Invalid XML">>
        /\ validation.warnings = <<>>

LineParses(line) ==
    /\ DecParse(line.InvoicedQuantity).ok
    /\ DecParse(line.PriceAmount).ok
    /\ DecParse(line.LineExtensionAmount).ok

TotalsParse(d) ==
    /\ DecParse(d.TaxExclusiveAmount).ok
    /\ DecParse(d.TaxAmount).ok
    /\ DecParse(d.TaxInclusiveAmount).ok

C16_Reported ==
    (Validated /\ xml.parses) =>
        LET errs == Messages(validation.errors)
        IN  /\ \A i \in DOMAIN xml.InvoiceLines :
                  LineParses(xml.InvoiceLines[i]) =>
                      /\ Br11Message(i) \in errs <=> LineMismatch(xml.InvoiceLines[i])
                      /\ Br11Message(i) \in errs => ~validation.is_valid
            /\ TotalsParse(xml) => (Br14Message \in errs <=> TotalsMismatch(xml))

\* C16: the arithmetic cross-checks use a tolerance of 0.01.  For every line
\* whose quantity, price and declared amount are numbers, the result holds a
\* BR-11 error for that line (and is_valid is false) exactly when
\* |round2(quantity x price) - declared amount| > 0.01; when the declared
\* totals are numbers it holds the BR-14 error exactly when
\* |round2(tax_exclusive + tax) - declared tax_inclusive| > 0.01; and
\* validating leaves the document as it was.
C16_Tolerance ==
    /\ []C16_Reported
    /\ [][validation' # validation => xml' = xml]_vars

\* A changed document validated whose first line amount is off by no more than
\* 0.01 and is not reported, while its tax-inclusive total is off by more and
\* is reported.
C16_Witness ==
    /\ Validated /\ xml.parses /\ edits > 0
    /\ xml.InvoiceLines # <<>>
    /\ LineParses(xml.InvoiceLines[1])
    /\ DecParse(xml.InvoiceLines[1].LineExtensionAmount).m
           # HalfUpCents(DecParse(xml.InvoiceLines[1].InvoicedQuantity).m
                            * DecParse(xml.InvoiceLines[1].PriceAmount).m,
                         DecParse(xml.InvoiceLines[1].InvoicedQuantity).e
                            + DecParse(xml.InvoiceLines[1].PriceAmount).e)
    /\ ~LineMismatch(xml.InvoiceLines[1])
    /\ Br11Message(1) \notin Messages(validation.errors)
    /\ TotalsParse(xml) /\ TotalsMismatch(xml)
    /\ Br14Message \in Messages(validation.errors)
    /\ ~validation.is_valid

Br15Message == "BR-15: Billing reference is mandatory for credit and debit notes"

Br16Message == "BR-16: Instruction note is recommended for credit and debit notes"

\* The document names no original invoice.
NoBillingReference(d) ==
    \A i \in DOMAIN d.BillingReference : Missing(d.BillingReference[i].ID)

\* The document gives no instruction note.
NoInstructionNote(d) ==
    \A i \in DOMAIN d.PaymentMeans : Missing(d.PaymentMeans[i].InstructionNote)

----------------------------------------------------------------------------
(* Properties of the references of credit and debit notes (SpecGen)        *)

Supplied(text) == text \notin {None, <<>>}

----------------------------------------------------------------------------
(* Further properties of the validator (SpecVal)                           *)

\* C19: every validation result carries checks_run, and for a document with
\* type code 388 it is 14, for one with type code 381 or 383 it is 16,
\* whatever the number of errors.
C19_ChecksRun ==
    (validation # NotRun /\ "raises" \notin DOMAIN validation) =>
        /\ "checks_run" \in DOMAIN validation
        /\ (xml.parses /\ xml.InvoiceTypeCode = Txt_388) => validation.checks_run = 14
        /\ (xml.parses /\ xml.InvoiceTypeCode \in {Txt_381, Txt_383}) =>
              validation.checks_run = 16

Br08Message == "BR-08: Buyer VAT number is mandatory for standard (B2B) invoices"

\* The sub-type marker is present and begins with "01".
MarkedStandard(d) ==
    /\ d.InvoiceTypeCode_name # None
    /\ Len(d.InvoiceTypeCode_name) >= 2
    /\ SubSeq(d.InvoiceTypeCode_name, 1, 2) = <<48, 49>>

\* C20: a validated document has the BR-08 error exactly when its sub-type
\* marker begins with "01" (credit and debit notes carry 0100000 as well) and
\* its buyer party has no VAT number; a document marked 0200000 never has it,
\* with or without a buyer VAT number.
C20_BuyerVatForStandard ==
    (Validated /\ xml.parses) =>
        LET errs == Messages(validation.errors)
        IN  /\ Br08Message \in errs <=>
                  (MarkedStandard(xml) /\ Missing(xml.Customer.CompanyID))
            /\ xml.InvoiceTypeCode_name = Txt_Simple => Br08Message \notin errs

\* A credit note marked 0100000 whose buyer VAT number was removed, validated
\* and rejected with BR-08.
C20_Witness ==
    /\ Validated /\ xml.parses /\ edits > 0
    /\ xml.InvoiceTypeCode = Txt_381
    /\ MarkedStandard(xml)
    /\ Missing(xml.Customer.CompanyID)
    /\ Br08Message \in Messages(validation.errors)
    /\ ~validation.is_valid

Br01Message == "BR-01: Invoice ID (cbc:ID) is mandatory"

\* C21: a validated document without the invoice's own ID element (the cbc:ID
\* child of Invoice) has the BR-01 error, whatever other ID elements
\* (tax-scheme, QR reference, line IDs) it contains.
C21_InvoiceIdMandatory ==
    (Validated /\ xml.parses /\ xml.ID = None) =>
        Br01Message \in Messages(validation.errors)

----------------------------------------------------------------------------
(* Properties of the type codes (Spec)                                     *)

Br03Messages == {"BR-03: Invoice Type Code is mandatory", "BR-03: Invalid Invoice Type Code"}

\* C22: a built document carries type code 388 with sub-type 0100000 for
\* 'standard', 388 with 0200000 for 'simplified', 381 with 0100000 for
\* 'credit_note' and 383 with 0100000 for 'debit_note'; its type code is one
\* of 388, 381, 383 and its validation has no BR-03 error.
C22_TypeCodes ==
    (xml # NotRun /\ ~xml.raised) =>
        LET code == <<xml.InvoiceTypeCode, xml.InvoiceTypeCode_name>>
        IN  /\ request.invoice_type = "standard"    => code = <<Txt_388, <<48, 49, 48, 48, 48, 48, 48>> >>
            /\ request.invoice_type = "simplified"  => code = <<Txt_388, <<48, 50, 48, 48, 48, 48, 48>> >>
            /\ request.invoice_type = "credit_note" => code = <<Txt_381, <<48, 49, 48, 48, 48, 48, 48>> >>
            /\ request.invoice_type = "debit_note"  => code = <<Txt_383, <<48, 49, 48, 48, 48, 48, 48>> >>
            /\ xml.InvoiceTypeCode \in {<<51, 56, 56>>, <<51, 56, 49>>, <<51, 56, 51>>}
            /\ Validated => Br03Messages \cap Messages(validation.errors) = {}

\* A debit note built and validated without a BR-03 error.
C22_Witness ==
    /\ xml # NotRun /\ ~xml.raised /\ Validated
    /\ request.invoice_type = "debit_note"
    /\ xml.InvoiceTypeCode = <<51, 56, 51>>
    /\ xml.InvoiceTypeCode_name = <<48, 49, 48, 48, 48, 48, 48>>
    /\ Br03Messages \cap Messages(validation.errors) = {}

----------------------------------------------------------------------------
(* Properties of signing (SpecSign)                                        *)

SignedOk == signing # NotRun /\ signing.kind = "signed"

----------------------------------------------------------------------------
(* Properties of concurrent invocations (SpecCore)                         *)

\* What the invocation returns when it runs alone, its clock at second c.t.
Alone(c) ==
    CASE c.op = "encode_tlv"           -> encode_tlv(c.arg)
      [] c.op = "decode_tlv"           -> decode_tlv(c.arg)
      [] c.op = "build_invoice_xml"    -> BuildDocument(c.arg, c.t)
      [] c.op = "validate_invoice_xml" -> validate_invoice_xml(c.arg)

C24_Results ==
    \A th \in Threads : calls[th].pc = "done" => calls[th].result = Alone(calls[th])

\* C24: the core operations share no mutable state.  In every interleaving of
\* the steps of concurrent encode_tlv, decode_tlv, build_invoice_xml and
\* validate_invoice_xml invocations, an invocation that has returned has
\* returned what it returns run alone (for the same clock reading), and no
\* step changes the module-level tables.
C24_NoSharedState ==
    /\ []C24_Results
    /\ [][tables' = tables]_vars

\* Two invocations of different operations, each of which ran steps while the
\* other was under way, have both returned; one built a credit note.
C24_Witness ==
    \E a, b \in Threads :
        /\ a # b
        /\ calls[a].pc = "done" /\ calls[b].pc = "done"
        /\ calls[a].overlapped /\ calls[b].overlapped
        /\ calls[a].op = "build_invoice_xml" /\ calls[a].arg.invoice_type = "credit_note"
        /\ calls[a].result.InvoiceTypeCode = Txt_381
        /\ calls[b].op = "decode_tlv" /\ calls[b].result.ok
        /\ tables = ModuleTables

----------------------------------------------------------------------------
(* Properties of the request checks of generate_invoice (SpecGen)          *)

\* Whether each request check fails, in the order the tool evaluates them.
FailingChecks(r) ==
    { k \in 1..7 :
        << ~MatchesDate(r.issue_date),
           \/ Len(r.seller_name) > 200 \/ Len(r.buyer_name) > 200
           \/ Len(r.seller_address) > 500 \/ Len(r.seller_city) > 200
           \/ Len(r.buyer_address) > 500 \/ Len(r.buyer_city) > 200,
           ~r.items_json,
           r.line_items = <<>>,
           \E i \in 1..Len(r.line_items) : ItemError(i, r.line_items[i]) # "",
           validate_vat_number(r.seller_vat) # <<>>,
           r.invoice_type = "standard" /\ r.buyer_vat \in {None, <<>>} >>[k] }

FirstFaultyLine(r) ==
    CHOOSE i \in 1..Len(r.line_items) :
        /\ ItemError(i, r.line_items[i]) # ""
        /\ \A j \in 1..(i - 1) : ItemError(j, r.line_items[j]) = ""

\* The error object that check k returns.
ErrorOfCheck(k, r) ==
    CASE k = 1 -> [error |-> "issue_date must be YYYY-MM-DD format", details |-> <<>>]
      [] k = 2 -> [error |-> LengthError(r), details |-> <<>>]
      [] k = 3 -> [error |-> "Invalid items JSON", details |-> <<>>]
      [] k = 4 -> [error |-> "At least one line item is required", details |-> <<>>]
      [] k = 5 -> [error |-> ItemError(FirstFaultyLine(r), r.line_items[FirstFaultyLine(r)]),
                   details |-> <<>>]
      [] k = 6 -> [error |-> "Invalid seller VAT", details |-> validate_vat_number(r.seller_vat)]
      [] k = 7 -> [error |-> "Buyer VAT number is required for standard (B2B) invoices",
                   details |-> <<>>]

\* C25: generate_invoice evaluates its request checks in the order date
\* format, length limits, items JSON, non-empty list, lines (in order), seller
\* VAT, buyer VAT of a standard invoice.  The first check that fails alone
\* determines the error object returned (a seller VAT failure carries all
\* sub-violations), no document is built when a check fails, and no error
\* object of a check is returned when all pass.
C25_CheckOrder ==
    response # NotRun =>
        LET failing == FailingChecks(request)
            k == CHOOSE c \in failing : \A o \in failing : c <= o
        IN  IF failing = {}
            THEN response.kind # "error"
            ELSE /\ response.kind = "error"
                 /\ [error |-> response.error, details |-> response.details]
                        = ErrorOfCheck(k, request)
                 /\ xml = NotRun

\* A request with a faulty line and a bad seller VAT number was answered with
\* the error of the line; another check that fails later was not reported.
C25_Witness ==
    /\ response # NotRun
    /\ FailingChecks(request) = {5, 6}
    /\ response.kind = "error"
    /\ response.error = "Line item 1: unit_price must be non-negative"
    /\ xml = NotRun

----------------------------------------------------------------------------
(* Properties of the signed document (SpecSign)                            *)

\* How many elements of the given name the UBLExtensions of a document hold.
CountIn(d, name) == SumSeq([i \in 1..Len(UBLExtensions(d)) |-> Len(UBLExtensions(d)[i][name])])

\* C26: after inject_signature, applied once or several times in sequence
\* (re-signing a signed document included), the document has exactly one
\* UBLExtensions element, and it holds exactly one SignatureValue, one
\* X509Certificate and one SignedProperties.
C26_OneSignatureBlock ==
    SignedOk =>
        /\ Len(UBLExtensions(signing.signed_xml)) = 1
        /\ CountIn(signing.signed_xml, "SignatureValue") = 1
        /\ CountIn(signing.signed_xml, "X509Certificate") = 1
        /\ CountIn(signing.signed_xml, "SignedProperties") = 1

\* C28: the invoice_hash returned by sign_invoice (the value of QR tag 6) is
\* hash_invoice of the signed_xml returned by the same call.
C28_HashOfSignedXml ==
    SignedOk => signing.invoice_hash = hash_invoice(signing.signed_xml)

----------------------------------------------------------------------------
(* Properties of the QR encoding inside generate_invoice (SpecGen)         *)

\* C27: a seller_name of at most 200 characters encodes to at most 255
\* bytes, so a request that passes every check of generate_invoice is
\* answered with a document: the QR encoding raises no exception.
C27_NameFitsTlv ==
    (response # NotRun /\ FailingChecks(request) = {}) =>
        /\ Len(Utf8Encode(request.seller_name)) <= 255
        /\ response.kind = "xml"

\* C29: in a document returned by generate_invoice, the QR timestamp (tag 3)
\* is the document's IssueDate, "T", its IssueTime and "Z", whenever the
\* tool and the builder read the clock.
C29_QrTimestamp ==
    (response # NotRun /\ response.kind = "xml" /\ ~xml.raised) =>
        /\ decode_tlv(xml.QR).ok
        /\ 3 \in DOMAIN decode_tlv(xml.QR).result
        /\ decode_tlv(xml.QR).result[3] = xml.IssueDate \o <<84>> \o xml.IssueTime \o <<90>>

----------------------------------------------------------------------------
(* Properties of request routing (SpecApi)                                 *)

ClearancePath == "/invoices/clearance/single"
ReportingPath == "/invoices/reporting/single"
CompliancePath == "/compliance/invoices"

\* C30: routing selects by exact match with a fixed fallback.  A request goes
\* to the sandbox base URL if and only if environment is exactly "sandbox",
\* and to the production base URL for every other value; submit_invoice posts
\* to the clearance endpoint with Clearance-Status 1 if and only if mode is
\* exactly "clearance", and to the reporting endpoint with Clearance-Status 0
\* for every other value.
C30_Routing ==
    (http # NotRun /\ http.posted # <<>>) =>
        LET req   == http.posted[1]
            paths == IF http.tool = "submit_invoice" THEN {ClearancePath, ReportingPath}
                     ELSE {CompliancePath}
            at(base) == req.url \in {base \o path : path \in paths}
            to(path) == req.url \in {base \o path : base \in {SANDBOX_BASE_URL,
                                                              PRODUCTION_BASE_URL}}
        IN  /\ at(SANDBOX_BASE_URL) <=> http.args.environment = "sandbox"
            /\ at(PRODUCTION_BASE_URL) <=> http.args.environment # "sandbox"
            /\ http.tool = "submit_invoice" =>
                  /\ (to(ClearancePath) /\ req.headers.Clearance_Status = "1")
                        <=> http.args.mode = "clearance"
                  /\ (to(ReportingPath) /\ req.headers.Clearance_Status = "0")
                        <=> http.args.mode # "clearance"

\* submit_invoice was called with environment "Sandbox" and mode "Clearance"
\* (neither an exact match), posted to the production reporting endpoint with
\* Clearance-Status 0, and returned the answer.
C30_Witness ==
    /\ http # NotRun /\ http.tool = "submit_invoice" /\ http.pc = "done"
    /\ http.args.environment = "Sandbox" /\ http.args.mode = "Clearance"
    /\ http.posted # <<>>
    /\ http.posted[1].url = PRODUCTION_BASE_URL \o ReportingPath
    /\ http.posted[1].headers.Clearance_Status = "0"
    /\ http.result.status = "REPORTED"

====
